---------------------------- MODULE Spec2Model ----------------------------
(***************************************************************************)
(* Verification model of the github-stats MCP server: the quota tracker    *)
(* (utils/rate-limit), the paginated stargazer / release fetchers, the     *)
(* batch profile enricher, the adaptive scope planner, the star-history    *)
(* derivation and the tool dispatch path.                                  *)
(*                                                                         *)
(* Each subsystem has its own specification (SpecQuota, SpecFetch, ...)    *)
(* over its own group of variables; the variables of the other subsystems  *)
(* stay at their initial value.                                            *)
(***************************************************************************)
EXTENDS Integers, Sequences, FiniteSets, TLC

VARIABLES
    \* ---- quota tracker (utils/rate-limit) ----
    currentRateLimitState,  \* module-level state container
    now,                    \* the wall clock, in milliseconds
    hook,                   \* per invocation: position in the request hook
    lastObs,                \* history: last complete observation per resource
    nObs,                   \* history: number of responses observed
    lastHeaders,            \* history: headers last handed to updateFromHeaders
    \* ---- paginated fetchers (github/stargazers, github/releases, ...) ----
    listN,                  \* remote: number of records of the listing
    ghosts,                 \* remote: stargazer records whose user is null
    fetch,                  \* the fetch call in progress
    \* ---- batch profile enricher (utils/helpers processInBatches) ----
    enrich,                 \* the processInBatches call in progress
    \* ---- adaptive scope planner (calculateOptimalAnalysisLimit) ----
    plan,                   \* the planning call and what it returned
    \* ---- star history derivation (calculateStarHistory) ----
    star,                   \* the stargazers handed in and the analytics built
    \* ---- tool dispatch (index.ts CallToolRequestSchema handler) ----
    tool,                   \* the tool call in progress
    \* ---- release analytics (calculateReleaseMetrics, calculateDownloadStats) ----
    rel,                    \* the releases handed in and the analytics built
    \* ---- pure calculations (helpers, influencer analytics) ----
    calc,                   \* the function applied, its input and its result
    \* ---- withRetry (utils/helpers) ----
    retry,                  \* the withRetry call in progress
    \* ---- getInfluencerAnalytics (github/index) ----
    inf                     \* the influencer analysis in progress

quotaVars == <<currentRateLimitState, now, hook, lastObs, nObs, lastHeaders>>
fetchVars == <<listN, ghosts, fetch>>
batchVars == <<enrich>>
planVars  == <<plan>>
starVars  == <<star>>
toolVars  == <<tool>>
releaseVars == <<rel>>
calcVars  == <<calc>>
retryVars == <<retry>>
influencerVars == <<inf>>

vars == <<quotaVars, fetchVars, batchVars, planVars, starVars, toolVars, releaseVars,
          calcVars, retryVars, influencerVars>>

\* What the actions of one subsystem leave alone.
notQuota == <<fetchVars, batchVars, planVars, starVars, toolVars, releaseVars,
               calcVars, retryVars, influencerVars>>
notFetch == <<quotaVars, batchVars, planVars, starVars, toolVars, releaseVars,
               calcVars, retryVars, influencerVars>>
notBatch == <<quotaVars, fetchVars, planVars, starVars, toolVars, releaseVars,
               calcVars, retryVars, influencerVars>>
notPlan  == <<quotaVars, fetchVars, batchVars, starVars, toolVars, releaseVars,
               calcVars, retryVars, influencerVars>>
notStar  == <<quotaVars, fetchVars, batchVars, planVars, toolVars, releaseVars,
               calcVars, retryVars, influencerVars>>
notTool  == <<quotaVars, fetchVars, batchVars, planVars, starVars, releaseVars,
               calcVars, retryVars, influencerVars>>
notRelease == <<quotaVars, fetchVars, batchVars, planVars, starVars, toolVars,
               calcVars, retryVars, influencerVars>>

notCalc == <<quotaVars, fetchVars, batchVars, planVars, starVars, toolVars,
             releaseVars, retryVars, influencerVars>>
notRetry == <<quotaVars, fetchVars, batchVars, planVars, starVars, toolVars,
              releaseVars, calcVars, influencerVars>>
notInfluencer == <<quotaVars, fetchVars, batchVars, planVars, starVars, toolVars,
                   releaseVars, calcVars, retryVars>>

Min(a, b) == IF a < b THEN a ELSE b
Max(a, b) == IF a > b THEN a ELSE b

(***************************************************************************)
(*                          PAGINATED FETCHERS                             *)
(***************************************************************************)

\* ---- bounds ----
MaxN == 201           \* small listings hold 0..MaxN records

\* ---- program constants ----
PerPage      == 100   \* perPage / per_page of the exhaustive fetchers
PauseEvery   == 10    \* page % 10 === 0
DefaultLimit == 10    \* getReleases(identifier, limit = 10)
DefaultStargazerLimit == 1000   \* getStargazersWithTimestamps(identifier, limit = 1000)

\* The caps handed to the capped stargazer fetch.
Limits == {1, 3, PerPage, 150, DefaultStargazerLimit}

\* A listing long enough for the fetch to reach its tenth page.
LongListing == (PauseEvery - 1) * PerPage + 1

ListingSizes == (0..MaxN) \cup {LongListing}

FetchOps == {"getAllStargazersWithTimestamps", "getStargazersWithTimestamps",
             "getAllReleases", "getReleases", "getLatestRelease",
             "getTrafficReferrers"}

ErrorStatuses == {403, 404, 500}

\* The null of starred_at and the login of a null user.
Null == 0

\* One record of the remote stargazer listing in the timestamp-enhanced form
\* ({ starred_at, user }) and in the plain form (a user object).
EnhancedItem(id) ==
    [form |-> "star", login |-> IF id \in ghosts THEN Null ELSE id, starred_at |-> id]
PlainItem(id) == [form |-> "user", login |-> id, starred_at |-> Null]
ReleaseItem(id) == [form |-> "release", login |-> id, starred_at |-> Null]

RemoteItem(form, id) ==
    CASE form = "star" -> EnhancedItem(id)
      [] form = "user" -> PlainItem(id)
      [] OTHER         -> ReleaseItem(id)

\* The remote listing: page `page` of size `perPage` in the given form.
RemotePage(form, page, perPage) ==
    LET first == (page - 1) * perPage
        count == Max(0, Min(perPage, listN - first))
    IN  [k \in 1..count |-> RemoteItem(form, first + k)]

\* response.data.map(...).filter(...) of the enhanced fetch.
isStargazerWithUser(item) == item.form = "star"
isRegularUser(item) == item.form = "user"

MapEnhanced(item) ==
    IF isStargazerWithUser(item)
    THEN [login |-> item.login, starred_at |-> item.starred_at]
    ELSE IF isRegularUser(item)
         THEN [login |-> item.login, starred_at |-> Null]
         ELSE [login |-> Null, starred_at |-> Null]

KeepMapped(s) == s.login # Null

batchStargazers(data) ==
    SelectSeq([k \in 1..Len(data) |-> MapEnhanced(data[k])], KeepMapped)

\* response.data.filter(isRegularUser).map(...) of the fallback fetch.
MapPlain(item) == [login |-> item.login, starred_at |-> Null]

fallbackBatch(data) ==
    LET users == SelectSeq(data, isRegularUser)
    IN  [k \in 1..Len(users) |-> MapPlain(users[k])]

\* "If we got less than perPage results, we've reached the end".
lastPage_mut(data) == Len(data) = 0
lastPage(data) == Len(data) < PerPage

\* getAllReleases: hasMore = response.data.length === 100.
hasMore(data) == Len(data) = PerPage

NoResult == [kind |-> "none", items |-> <<>>]
ListResult(items) == [kind |-> "list", items |-> items]
NullResult == [kind |-> "null", items |-> <<>>]

FetchState(op, pc) ==
    [op |-> op, pc |-> pc, mode |-> "enhanced", page |-> 1, acc |-> <<>>,
     result |-> NoResult, reqLog |-> <<>>, pauses |-> 0, limit |-> 0]

\* No fetch is running (the other specifications).
FetchIdle ==
    /\ listN = 0
    /\ ghosts = {}
    /\ fetch = FetchState("none", "idle")

Request(form, page, status) == [form |-> form, page |-> page, status |-> status]

\* After page++: a pause before every page whose number is a multiple of 10.
AfterPage(f) ==
    IF f.page % PauseEvery = 0
    THEN [f EXCEPT !.pc = "pause", !.pauses = @ + 1]
    ELSE f

Done(f, result) == [f EXCEPT !.pc = "done", !.result = result]

\* The fallback starts over: its own empty array, page 1, plain requests.
FallbackStart_keep(f) == [f EXCEPT !.mode = "plain", !.page = 1]
FallbackStart(f) == [f EXCEPT !.mode = "plain", !.page = 1, !.acc = <<>>]

\* getAllStargazersWithTimestamps: one iteration of while (true): the
\* enhanced request for the current page succeeded.
StargazersPage ==
    /\ fetch.op = "getAllStargazersWithTimestamps"
    /\ fetch.pc = "request" /\ fetch.mode = "enhanced"
    /\ LET data == RemotePage("star", fetch.page, PerPage)
           f1 == [fetch EXCEPT !.reqLog = Append(@, Request("star", fetch.page, 200))]
           f2 == [f1 EXCEPT !.acc = @ \o batchStargazers(data)]
       IN  fetch' = IF Len(data) = 0 THEN Done(f1, ListResult(f1.acc))
                    ELSE IF lastPage(data) THEN Done(f2, ListResult(f2.acc))
                    ELSE AfterPage([f2 EXCEPT !.page = @ + 1])
    /\ UNCHANGED <<listN, ghosts, notFetch>>

\* getAllStargazersWithTimestamps: the enhanced request threw; the catch
\* returns getAllStargazersFallback(client)(identifier).
StargazersError ==
    /\ fetch.op = "getAllStargazersWithTimestamps"
    /\ fetch.pc = "request" /\ fetch.mode = "enhanced"
    /\ \E status \in ErrorStatuses :
         fetch' = FallbackStart(
                    [fetch EXCEPT !.reqLog = Append(@, Request("star", fetch.page, status))])
    /\ UNCHANGED <<listN, ghosts, notFetch>>

\* getAllStargazersFallback: one iteration of while (true).
FallbackPage ==
    /\ fetch.op = "getAllStargazersWithTimestamps"
    /\ fetch.pc = "request" /\ fetch.mode = "plain"
    /\ LET data == RemotePage("user", fetch.page, PerPage)
           f1 == [fetch EXCEPT !.reqLog = Append(@, Request("user", fetch.page, 200))]
           f2 == [f1 EXCEPT !.acc = @ \o fallbackBatch(data)]
       IN  fetch' = IF Len(data) = 0 THEN Done(f1, ListResult(f1.acc))
                    ELSE IF lastPage(data) THEN Done(f2, ListResult(f2.acc))
                    ELSE AfterPage([f2 EXCEPT !.page = @ + 1])
    /\ UNCHANGED <<listN, ghosts, notFetch>>

\* getAllStargazersFallback has no catch: the error reaches withErrorHandling.
FallbackError ==
    /\ fetch.op = "getAllStargazersWithTimestamps"
    /\ fetch.pc = "request" /\ fetch.mode = "plain"
    /\ \E status \in ErrorStatuses :
         fetch' = [fetch EXCEPT !.pc = "failed",
                      !.reqLog = Append(@, Request("user", fetch.page, status))]
    /\ UNCHANGED <<listN, ghosts, notFetch>>

\* The 1 second pause is over.
PauseElapsed ==
    /\ fetch.pc = "pause"
    /\ fetch' = [fetch EXCEPT !.pc = "request"]
    /\ UNCHANGED <<listN, ghosts, notFetch>>

\* stargazers.slice(0, limit)
slice(array, limit) == SubSeq(array, 1, Min(limit, Len(array)))

\* stargazers.length >= limit
capReached_never(stargazers, limit) == FALSE
capReached(stargazers, limit) == Len(stargazers) >= limit

\* const perPage = Math.min(100, limit)
cappedPerPage(limit) == Min(PerPage, limit)

\* getStargazersWithTimestamps(identifier, limit): one iteration of
\* while (stargazers.length < limit); the enhanced request succeeded.
CappedPage ==
    /\ fetch.op = "getStargazersWithTimestamps"
    /\ fetch.pc = "request" /\ fetch.mode = "enhanced"
    /\ ~capReached(fetch.acc, fetch.limit)
    /\ LET perPage == cappedPerPage(fetch.limit)
           data == RemotePage("star", fetch.page, perPage)
           f1 == [fetch EXCEPT !.reqLog = Append(@, Request("star", fetch.page, 200))]
           f2 == [f1 EXCEPT !.acc = @ \o batchStargazers(data)]
       IN  fetch' = IF Len(data) = 0
                    THEN Done(f1, ListResult(slice(f1.acc, fetch.limit)))
                    ELSE IF Len(data) < perPage \/ capReached(f2.acc, fetch.limit)
                    THEN Done(f2, ListResult(slice(f2.acc, fetch.limit)))
                    ELSE [f2 EXCEPT !.page = @ + 1]
    /\ UNCHANGED <<listN, ghosts, notFetch>>

\* The enhanced request threw: return getStargazersFallback(identifier, limit).
CappedError ==
    /\ fetch.op = "getStargazersWithTimestamps"
    /\ fetch.pc = "request" /\ fetch.mode = "enhanced"
    /\ ~capReached(fetch.acc, fetch.limit)
    /\ \E status \in ErrorStatuses :
         fetch' = FallbackStart(
                    [fetch EXCEPT !.reqLog = Append(@, Request("star", fetch.page, status))])
    /\ UNCHANGED <<listN, ghosts, notFetch>>

\* getStargazersFallback: one iteration of while (stargazers.length < limit).
CappedFallbackPage ==
    /\ fetch.op = "getStargazersWithTimestamps"
    /\ fetch.pc = "request" /\ fetch.mode = "plain"
    /\ ~capReached(fetch.acc, fetch.limit)
    /\ LET perPage == cappedPerPage(fetch.limit)
           data == RemotePage("user", fetch.page, perPage)
           f1 == [fetch EXCEPT !.reqLog = Append(@, Request("user", fetch.page, 200))]
           f2 == [f1 EXCEPT !.acc = @ \o fallbackBatch(data)]
       IN  fetch' = IF Len(data) = 0
                    THEN Done(f1, ListResult(slice(f1.acc, fetch.limit)))
                    ELSE IF Len(data) < perPage \/ capReached(f2.acc, fetch.limit)
                    THEN Done(f2, ListResult(slice(f2.acc, fetch.limit)))
                    ELSE [f2 EXCEPT !.page = @ + 1]
    /\ UNCHANGED <<listN, ghosts, notFetch>>

\* getStargazersFallback has no catch either.
CappedFallbackError ==
    /\ fetch.op = "getStargazersWithTimestamps"
    /\ fetch.pc = "request" /\ fetch.mode = "plain"
    /\ ~capReached(fetch.acc, fetch.limit)
    /\ \E status \in ErrorStatuses :
         fetch' = [fetch EXCEPT !.pc = "failed",
                      !.reqLog = Append(@, Request("user", fetch.page, status))]
    /\ UNCHANGED <<listN, ghosts, notFetch>>

\* The catch of getReleases / getAllReleases / getLatestRelease.
isNotFound_mut(status) == status = 403
isNotFound(status) == status = 404

\* getAllReleases: one iteration of while (hasMore).
AllReleasesPage ==
    /\ fetch.op = "getAllReleases" /\ fetch.pc = "request"
    /\ LET data == RemotePage("release", fetch.page, PerPage)
           f1 == [fetch EXCEPT !.reqLog = Append(@, Request("release", fetch.page, 200)),
                               !.acc = @ \o data,
                               !.page = @ + 1]
       IN  fetch' = IF hasMore(data) THEN f1 ELSE Done(f1, ListResult(f1.acc))
    /\ UNCHANGED <<listN, ghosts, notFetch>>

AllReleasesError ==
    /\ fetch.op = "getAllReleases" /\ fetch.pc = "request"
    /\ \E status \in ErrorStatuses :
         LET f1 == [fetch EXCEPT !.reqLog = Append(@, Request("release", fetch.page, status))]
         IN  fetch' = IF isNotFound(status) THEN Done(f1, ListResult(<<>>))
                      ELSE [f1 EXCEPT !.pc = "failed"]
    /\ UNCHANGED <<listN, ghosts, notFetch>>

\* getReleases(identifier, limit): a single request with per_page = limit.
GetReleasesResponse ==
    /\ fetch.op = "getReleases" /\ fetch.pc = "request"
    /\ LET data == RemotePage("release", 1, DefaultLimit)
           f1 == [fetch EXCEPT !.reqLog = Append(@, Request("release", 1, 200))]
       IN  fetch' = Done(f1, ListResult(data))
    /\ UNCHANGED <<listN, ghosts, notFetch>>

GetReleasesError ==
    /\ fetch.op = "getReleases" /\ fetch.pc = "request"
    /\ \E status \in ErrorStatuses :
         LET f1 == [fetch EXCEPT !.reqLog = Append(@, Request("release", 1, status))]
         IN  fetch' = IF isNotFound(status) THEN Done(f1, ListResult(<<>>))
                      ELSE [f1 EXCEPT !.pc = "failed"]
    /\ UNCHANGED <<listN, ghosts, notFetch>>

\* getLatestRelease: the remote answers with the latest release when the
\* repository has one.
GetLatestReleaseResponse ==
    /\ fetch.op = "getLatestRelease" /\ fetch.pc = "request"
    /\ listN > 0
    /\ LET f1 == [fetch EXCEPT !.reqLog = Append(@, Request("release", 1, 200))]
       IN  fetch' = Done(f1, [kind |-> "item", items |-> <<ReleaseItem(1)>>])
    /\ UNCHANGED <<listN, ghosts, notFetch>>

GetLatestReleaseError ==
    /\ fetch.op = "getLatestRelease" /\ fetch.pc = "request"
    /\ \E status \in ErrorStatuses :
         LET f1 == [fetch EXCEPT !.reqLog = Append(@, Request("release", 1, status))]
         IN  fetch' = IF isNotFound(status) THEN Done(f1, NullResult)
                      ELSE [f1 EXCEPT !.pc = "failed"]
    /\ UNCHANGED <<listN, ghosts, notFetch>>

\* getTrafficReferrers: a single request.
ReferrerItem(id) == [form |-> "referrer", login |-> id, starred_at |-> Null]

GetTrafficReferrersResponse ==
    /\ fetch.op = "getTrafficReferrers" /\ fetch.pc = "request"
    /\ LET f1 == [fetch EXCEPT !.reqLog = Append(@, Request("referrer", 1, 200))]
       IN  fetch' = Done(f1, ListResult(
                       [k \in 1..Min(listN, DefaultLimit) |-> ReferrerItem(k)]))
    /\ UNCHANGED <<listN, ghosts, notFetch>>

\* The catch of getTrafficReferrers: 403 and 404 give an empty list.
trafficRecovers(status) == status = 403 \/ status = 404

GetTrafficReferrersError ==
    /\ fetch.op = "getTrafficReferrers" /\ fetch.pc = "request"
    /\ \E status \in ErrorStatuses :
         LET f1 == [fetch EXCEPT !.reqLog = Append(@, Request("referrer", 1, status))]
         IN  fetch' = IF trafficRecovers(status) THEN Done(f1, ListResult(<<>>))
                      ELSE [f1 EXCEPT !.pc = "failed"]
    /\ UNCHANGED <<listN, ghosts, notFetch>>

(***************************************************************************)
(*                        BATCH PROFILE ENRICHER                           *)
(***************************************************************************)

\* ---- bounds ----
MaxItems == 10        \* identifiers handed to one processInBatches call

\* ---- program constants ----
ConfiguredBatchSize == 10     \* batchSize: 10
ConfiguredDelayMs   == 1000   \* delayBetweenBatches: 1000

BatchSizes == {3, ConfiguredBatchSize}
DelaysMs   == {0, ConfiguredDelayMs}

\* chunk(array, size)
chunk(array, size) ==
    [b \in 1..((Len(array) + size - 1) \div size) |->
        SubSeq(array, (b - 1) * size + 1, Min(b * size, Len(array)))]

Stargazer(k) == [login |-> k, starred_at |-> k]

\* What a settled lookup leaves in its slot of batchResults.
Pending == [kind |-> "pending", login |-> Null, starred_at |-> Null]
NullProfile == [kind |-> "null", login |-> Null, starred_at |-> Null]
Rejected == [kind |-> "rejected", login |-> Null, starred_at |-> Null]

\* fetchUserProfile: the profile of the user looked up, carrying the
\* stargazer's starred_at.
Profile(stargazer) ==
    [kind |-> "profile", login |-> stargazer.login, starred_at |-> stargazer.starred_at]

\* fetchUserProfile, the lookup threw: the catch logs and returns null.
lookupFailed_rethrow(stargazer) == Rejected
lookupFailed(stargazer) == NullProfile

isNonNull(result) == result.kind # "null"

EnrichState(items, batchSize, delayMs, pc) ==
    [pc |-> pc, items |-> items, batchSize |-> batchSize, delayMs |-> delayMs,
     i |-> 0, batchResults |-> <<>>, results |-> <<>>,
     failedLogins |-> {}, sleeps |-> 0, started |-> {}, settled |-> {}]

EnrichIdle == enrich = EnrichState(<<>>, ConfiguredBatchSize, ConfiguredDelayMs, "idle")

\* The batch of the current iteration (batches[i], i counted from 0).
CurrentBatch == chunk(enrich.items, enrich.batchSize)[enrich.i + 1]

\* for (let i = 0; i < batches.length; i++): batch.map(processor) starts
\* every lookup of the batch; past the last batch the results are returned.
BatchStart ==
    /\ enrich.pc = "loop"
    /\ IF enrich.i < Len(chunk(enrich.items, enrich.batchSize))
       THEN enrich' = [enrich EXCEPT !.pc = "await",
                          !.batchResults = [k \in 1..Len(CurrentBatch) |-> Pending],
                          !.started = @ \cup { CurrentBatch[k].login :
                                                  k \in 1..Len(CurrentBatch) }]
       ELSE enrich' = [enrich EXCEPT !.pc = "done"]
    /\ UNCHANGED notBatch

\* One lookup in flight succeeds.
LookupSucceeds(k) ==
    /\ enrich.pc = "await"
    /\ k \in 1..Len(enrich.batchResults)
    /\ enrich.batchResults[k] = Pending
    /\ enrich' = [enrich EXCEPT !.batchResults[k] = Profile(CurrentBatch[k]),
                     !.settled = @ \cup {CurrentBatch[k].login}]
    /\ UNCHANGED notBatch

\* One lookup in flight fails.
LookupFails(k) ==
    /\ enrich.pc = "await"
    /\ k \in 1..Len(enrich.batchResults)
    /\ enrich.batchResults[k] = Pending
    /\ enrich' = [enrich EXCEPT !.batchResults[k] = lookupFailed(CurrentBatch[k]),
                     !.failedLogins = @ \cup {CurrentBatch[k].login},
                     !.settled = @ \cup {CurrentBatch[k].login}]
    /\ UNCHANGED notBatch

\* if (i < batches.length - 1 && delayMs > 0)
delayDue_afterLast(i, nBatches, delayMs) == i < nBatches /\ delayMs > 0
delayDue(i, nBatches, delayMs) == i < nBatches - 1 /\ delayMs > 0

\* await Promise.all(...) resumes: every lookup has settled.  The non-null
\* results are pushed in slot order; then the delay, or the next iteration.
BatchResolved ==
    /\ enrich.pc = "await"
    /\ \A k \in 1..Len(enrich.batchResults) : enrich.batchResults[k] # Pending
    /\ IF \E k \in 1..Len(enrich.batchResults) : enrich.batchResults[k] = Rejected
       THEN enrich' = [enrich EXCEPT !.pc = "failed"]
       ELSE LET pushed == [enrich EXCEPT
                             !.results = @ \o SelectSeq(enrich.batchResults, isNonNull),
                             !.batchResults = <<>>]
            IN  IF delayDue(enrich.i, Len(chunk(enrich.items, enrich.batchSize)),
                            enrich.delayMs)
                THEN enrich' = [pushed EXCEPT !.pc = "delay", !.sleeps = @ + 1]
                ELSE enrich' = [pushed EXCEPT !.pc = "loop", !.i = @ + 1]
    /\ UNCHANGED notBatch

\* await delay(delayMs) is over.
DelayElapsed ==
    /\ enrich.pc = "delay"
    /\ enrich' = [enrich EXCEPT !.pc = "loop", !.i = @ + 1]
    /\ UNCHANGED notBatch

(***************************************************************************)
(*                        ADAPTIVE SCOPE PLANNER                           *)
(***************************************************************************)

\* ---- bounds ----
MaxRemaining == 2100  \* core.remaining is drawn from 0..MaxRemaining ...

\* ... and from the values around the 50000 cap.
LargeRemaining == {5000, 50099, 50100, 50101, 60000}

RemainingValues == (0..MaxRemaining) \cup LargeRemaining

Plan(analysisLimit, shouldUseAllStargazers) ==
    [analysisLimit |-> analysisLimit,
     shouldUseAllStargazers |-> shouldUseAllStargazers]

\* calculateOptimalAnalysisLimit, the try block after the quota lookup
\* answered with core.remaining = remainingRequests.
analysisBand_mut(hasToken, remainingRequests) ==
    IF ~hasToken
    THEN Plan(Min(25, remainingRequests - 10), FALSE)
    ELSE IF remainingRequests > 2000
    THEN Plan(Min(remainingRequests - 100, 50000), TRUE)
    ELSE IF remainingRequests >= 500
    THEN Plan(Min(remainingRequests - 100, 10000), TRUE)
    ELSE IF remainingRequests > 100
    THEN Plan(Min(100, remainingRequests - 20), FALSE)
    ELSE Plan(Max(10, remainingRequests - 5), FALSE)

analysisBand(hasToken, remainingRequests) ==
    IF ~hasToken
    THEN Plan(Min(25, remainingRequests - 10), FALSE)
    ELSE IF remainingRequests > 2000
    THEN Plan(Min(remainingRequests - 100, 50000), TRUE)
    ELSE IF remainingRequests > 500
    THEN Plan(Min(remainingRequests - 100, 10000), TRUE)
    ELSE IF remainingRequests > 100
    THEN Plan(Min(100, remainingRequests - 20), FALSE)
    ELSE Plan(Max(10, remainingRequests - 5), FALSE)

\* "Ensure we don't go below reasonable minimums"
calculateOptimalAnalysisLimit(hasToken, remainingRequests) ==
    LET band == analysisBand(hasToken, remainingRequests)
    IN  Plan(Max(10, band.analysisLimit), band.shouldUseAllStargazers)

\* The catch block: safe defaults when the quota lookup failed.
safeDefaults_cautious(hasToken) == Plan(IF hasToken THEN 5000 ELSE 50, FALSE)
safeDefaults(hasToken) == Plan(IF hasToken THEN 5000 ELSE 50, hasToken)

PlanState(pc, hasToken) ==
    [pc |-> pc, hasToken |-> hasToken, remaining |-> 0, lookupFailed |-> FALSE,
     result |-> Plan(0, FALSE)]

PlanIdle == plan = PlanState("idle", FALSE)

\* client.rest.rateLimit.get() answered.
PlanQuotaAnswered ==
    /\ plan.pc = "lookup"
    /\ \E remaining \in RemainingValues :
         plan' = [plan EXCEPT !.pc = "done", !.remaining = remaining,
                    !.result = calculateOptimalAnalysisLimit(plan.hasToken, remaining)]
    /\ UNCHANGED notPlan

\* client.rest.rateLimit.get() threw.
PlanQuotaFailed ==
    /\ plan.pc = "lookup"
    /\ plan' = [plan EXCEPT !.pc = "done", !.lookupFailed = TRUE,
                  !.result = safeDefaults(plan.hasToken)]
    /\ UNCHANGED notPlan

(***************************************************************************)
(*                            STAR HISTORY                                 *)
(***************************************************************************)

\* ---- bounds ----
MaxEvents == 4        \* stargazers handed to calculateStarHistory
MaxDays   == 3        \* calendar days on which a star can fall

\* A starred_at timestamp is day * SlotsPerDay + time of day; the date part
\* (starred_at.split("T")[0]) is the day.  Dates are fixed-width ISO strings,
\* so their string order is the order of the day numbers.
SlotsPerDay == 2

Timestamps == { d * SlotsPerDay + t : d \in 1..MaxDays, t \in 0..(SlotsPerDay - 1) }

datePart(starred_at) == starred_at \div SlotsPerDay

\* stargazers.filter((s) => s.starred_at)
hasTimestamp_all(stargazer) == TRUE
hasTimestamp(stargazer) == stargazer.starred_at # Null

\* groupBy(array, keyFn) with keyFn = the date part: date -> its stargazers.
groupBy(array) ==
    [date \in { datePart(array[k].starred_at) : k \in 1..Len(array) } |->
        LET OnDate(stargazer) == datePart(stargazer.starred_at) = date
        IN  SelectSeq(array, OnDate)]

\* Object.keys(starsByDate).sort()
RECURSIVE sorted(_)
sorted(keys) ==
    IF keys = {} THEN <<>>
    ELSE LET least == CHOOSE k \in keys : \A other \in keys : k <= other
         IN  <<least>> \o sorted(keys \ {least})

\* historyPoints.push({ date, stars: runningStars, change: dailyStars })
historyPoint_mut(date, runningStars, dailyStars) ==
    [date |-> date, stars |-> dailyStars, change |-> dailyStars]

historyPoint(date, runningStars, dailyStars) ==
    [date |-> date, stars |-> runningStars, change |-> dailyStars]

\* for (const date of sortedDates) { ... }, from the k-th date on.
RECURSIVE historyLoop(_, _, _, _)
historyLoop(starsByDate, sortedDates, k, runningStars) ==
    IF k > Len(sortedDates) THEN <<>>
    ELSE LET date == sortedDates[k]
             dailyStars == Len(starsByDate[date])
         IN  <<historyPoint(date, runningStars + dailyStars, dailyStars)>>
                \o historyLoop(starsByDate, sortedDates, k + 1,
                               runningStars + dailyStars)

\* calculateStarHistory(repository, stargazers).history_points
historyPoints(stargazers) ==
    LET starsByDate == groupBy(SelectSeq(stargazers, hasTimestamp))
    IN  historyLoop(starsByDate, sorted(DOMAIN starsByDate), 1, 0)

\* ---- bounds ----
MaxPoints == 3        \* history points handed to calculateMilestones alone

milestoneTargets == <<1000, 5000, 10000, 50000, 100000>>

milestoneType(target) ==
    CASE target = 1000   -> "1k"
      [] target = 5000   -> "5k"
      [] target = 10000  -> "10k"
      [] target = 50000  -> "50k"
      [] target = 100000 -> "100k"

\* (point) => point.stars >= target
milestoneReached_strict(point, target) == point.stars > target
milestoneReached(point, target) == point.stars >= target

\* historyPoints.find((point) => point.stars >= target)?.date || ""
milestoneDate(points, target) ==
    LET hits == { k \in 1..Len(points) :
                    milestoneReached(points[k], target) }
    IN  IF hits = {} THEN Null
        ELSE points[CHOOSE k \in hits : \A other \in hits : k <= other].date

\* calculateMilestones(historyPoints, currentStars)
calculateMilestones(points, currentStars) ==
    LET Current(target) == currentStars >= target
        targets == SelectSeq(milestoneTargets, Current)
        mapped == [k \in 1..Len(targets) |->
                     [stars |-> targets[k],
                      date |-> milestoneDate(points, targets[k]),
                      milestone_type |-> milestoneType(targets[k])]]
        Dated(milestone) == milestone.date # Null
    IN  SelectSeq(mapped, Dated)

StarState(pc, stargazers) ==
    [pc |-> pc, stargazers |-> stargazers, history_points |-> <<>>,
     current_stars |-> 0, milestones |-> <<>>]

StarIdle == star = StarState("idle", <<>>)

StargazerInputs ==
    UNION { [1..n -> [starred_at : Timestamps \cup {Null}]] : n \in 0..MaxEvents }

\* repository.stargazers_count of the calls on a list of stargazers.
StarCounts == {MaxEvents, 1000}

calculateStarHistory ==
    /\ star.pc = "call"
    /\ star' = [star EXCEPT !.pc = "done",
                  !.history_points = historyPoints(star.stargazers),
                  !.milestones = calculateMilestones(historyPoints(star.stargazers),
                                                     star.current_stars)]
    /\ UNCHANGED notStar

\* The daily changes and star totals handed to calculateMilestones alone.
DailyChanges == {1, 999, 1000, 4000, 5000, 45000, 50000, 100000}
CurrentStars == {0, 999, 1000, 4999, 5000, 10000, 50000, 99999, 100000, 200000}

\* History points as calculateStarHistory builds them: one per day, dates
\* increasing, stars the running sum of the changes.
RECURSIVE cumulative(_, _)
cumulative(changes, k) ==
    IF k = 0 THEN 0 ELSE cumulative(changes, k - 1) + changes[k]

HistoryInputs ==
    UNION { { [k \in 1..n |-> historyPoint(k, cumulative(changes, k), changes[k])] :
                changes \in [1..n -> DailyChanges] } :
            n \in 0..MaxPoints }

\* calculateMilestones(historyPoints, currentStars) applied to such points.
MilestonesCall ==
    /\ star.pc = "milestones"
    /\ star' = [star EXCEPT !.pc = "returned",
                  !.milestones = calculateMilestones(star.history_points,
                                                     star.current_stars)]
    /\ UNCHANGED notStar

(***************************************************************************)
(*                          RELEASE ANALYTICS                              *)
(***************************************************************************)

\* ---- bounds ----
MaxReleases  == 3     \* releases handed to the release calculations
MaxPublished == 4     \* publish instants are 1..MaxPublished (half days)

\* ---- program constants ----
HalfDaysPerDay == 2   \* a publish instant is counted in half days
Hundredths == 100     \* Math.round(x * 100) / 100 is kept as x * 100

\* sum(numbers)
RECURSIVE sumUpTo(_, _)
sumUpTo(numbers, k) == IF k = 0 THEN 0 ELSE sumUpTo(numbers, k - 1) + numbers[k]

sum(numbers) == sumUpTo(numbers, Len(numbers))

\* Math.round(a / b) for a >= 0, b > 0: halves go up.
round_floor(a, b) == a \div b
round(a, b) == (2 * a + b) \div (2 * b)

\* calculateDaysBetween(date1, date2): Math.floor of the difference in days.
calculateDaysBetween(date1, date2) == (date2 - date1) \div HalfDaysPerDay

Asset(download_count) == [download_count |-> download_count]

Release(tag_name, name, published_at, draft, assets) ==
    [tag_name |-> tag_name, name |-> name, published_at |-> published_at,
     draft |-> draft, assets |-> assets]

\* calculateReleaseDownloads(release)
calculateReleaseDownloads(release) ==
    sum([k \in 1..Len(release.assets) |-> release.assets[k].download_count])

\* releases.map((release) => ({ tag_name, total_downloads, ... }))
downloadTrends(releases) ==
    [k \in 1..Len(releases) |->
        [tag_name |-> releases[k].tag_name,
         total_downloads |-> calculateReleaseDownloads(releases[k])]]

\* [...downloadTrends].sort((a, b) => b.total_downloads - a.total_downloads):
\* Array.prototype.sort is stable, equal totals keep their input order.
RECURSIVE insertByDownloads(_, _)
insertByDownloads(sortedTrends, trend) ==
    IF sortedTrends = <<>> THEN <<trend>>
    ELSE IF Head(sortedTrends).total_downloads >= trend.total_downloads
         THEN <<Head(sortedTrends)>> \o insertByDownloads(Tail(sortedTrends), trend)
         ELSE <<trend>> \o sortedTrends

RECURSIVE sortByDownloads(_, _)
sortByDownloads(trends, k) ==
    IF k = 0 THEN <<>>
    ELSE insertByDownloads(sortByDownloads(trends, k - 1), trends[k])

\* releases.find((r) => r.tag_name === tag_name): the first one with the tag.
findByTag(releases, tag_name) ==
    LET hits == { k \in 1..Len(releases) : releases[k].tag_name = tag_name }
    IN  releases[CHOOSE k \in hits : \A other \in hits : k <= other]

mostDownloadedRelease(releases) ==
    LET trends == downloadTrends(releases)
        mostDownloaded == sortByDownloads(trends, Len(trends))[1]
        correspondingRelease == findByTag(releases, mostDownloaded.tag_name)
    IN  [tag_name |-> correspondingRelease.tag_name,
         name |-> correspondingRelease.name,
         downloads |-> mostDownloaded.total_downloads,
         published_at |-> correspondingRelease.published_at]

\* releases.filter((r) => r.published_at && !r.draft)
isPublished_anyDraft(release) == release.published_at # Null
isPublished(release) == release.published_at # Null /\ ~release.draft

\* publishedReleases.sort by publish instant, ascending (stable).
RECURSIVE insertByDate(_, _)
insertByDate(sortedReleases, release) ==
    IF sortedReleases = <<>> THEN <<release>>
    ELSE IF Head(sortedReleases).published_at <= release.published_at
         THEN <<Head(sortedReleases)>> \o insertByDate(Tail(sortedReleases), release)
         ELSE <<release>> \o sortedReleases

RECURSIVE sortByDate(_, _)
sortByDate(releases, k) ==
    IF k = 0 THEN <<>>
    ELSE insertByDate(sortByDate(releases, k - 1), releases[k])

Frequency(days_between_releases, releases_per_month, releases_per_year) ==
    [days_between_releases |-> days_between_releases,
     releases_per_month |-> releases_per_month,
     releases_per_year |-> releases_per_year]

\* calculateReleaseFrequency(releases); the three values in hundredths.
calculateReleaseFrequency(releases) ==
    LET publishedReleases == SelectSeq(releases, isPublished)
    IN  IF Len(publishedReleases) <= 1 THEN Frequency(0, 0, 0)
        ELSE LET sortedReleases == sortByDate(publishedReleases, Len(publishedReleases))
                 intervals == Len(sortedReleases) - 1
                 totalDays == calculateDaysBetween(
                                  sortedReleases[1].published_at,
                                  sortedReleases[Len(sortedReleases)].published_at)
             IN  Frequency(
                    round(totalDays * Hundredths, intervals),
                    IF totalDays > 0
                    THEN round(30 * intervals * Hundredths, totalDays) ELSE 0,
                    IF totalDays > 0
                    THEN round(365 * intervals * Hundredths, totalDays) ELSE 0)

NoRelease == [tag_name |-> Null, name |-> Null, downloads |-> 0, published_at |-> Null]

\* createEmptyReleaseAnalytics()
createEmptyReleaseAnalytics ==
    [total_releases |-> 0, total_downloads |-> 0,
     average_downloads_per_release |-> 0,
     most_downloaded_release |-> NoRelease,
     release_frequency |-> Frequency(0, 0, 0)]

\* calculateReleaseMetrics(releases)
calculateReleaseMetrics(releases) ==
    IF Len(releases) = 0 THEN createEmptyReleaseAnalytics
    ELSE LET trends == downloadTrends(releases)
             totalDownloads ==
                 sum([k \in 1..Len(trends) |-> trends[k].total_downloads])
         IN  [total_releases |-> Len(releases),
              total_downloads |-> totalDownloads,
              average_downloads_per_release |-> round(totalDownloads, Len(releases)),
              most_downloaded_release |-> mostDownloadedRelease(releases),
              release_frequency |-> calculateReleaseFrequency(releases)]

\* releases.flatMap((release) => release.assets.map(...))
RECURSIVE allAssets(_, _)
allAssets(releases, k) ==
    IF k = 0 THEN <<>> ELSE allAssets(releases, k - 1) \o releases[k].assets

\* calculateDownloadStats(releases).total_downloads
calculateDownloadStats(releases) ==
    IF Len(releases) = 0 THEN [total_downloads |-> 0]
    ELSE LET assets == allAssets(releases, Len(releases))
         IN  [total_downloads |->
                 sum([k \in 1..Len(assets) |-> assets[k].download_count])]

NotComputed == [computed |-> FALSE]
Computed(value) == [computed |-> TRUE, value |-> value]

ReleaseState(pc, releases) ==
    [pc |-> pc, releases |-> releases, metrics |-> NotComputed, stats |-> NotComputed]

ReleaseIdle == rel = ReleaseState("idle", <<>>)

\* The asset lists of one release.
AssetLists ==
    { <<>>, <<Asset(0)>>, <<Asset(1)>>, <<Asset(100)>>, <<Asset(250)>>,
      <<Asset(100), Asset(150)>> }

TagNames == {1, 2}

\* Published releases that differ in their assets; a tag name can occur on
\* more than one release of the list (draft releases are not tied to a tag).
DownloadInputs ==
    UNION { { [k \in 1..n |-> Release(tags[k], k, k, FALSE, assets[k])] :
                tags \in [1..n -> TagNames], assets \in [1..n -> AssetLists] } :
            n \in 0..MaxReleases }

\* Releases without assets that differ in publish instant and draft flag.
ScheduleInputs ==
    UNION { { [k \in 1..n |-> Release(k, k, published[k], draft[k], <<>>)] :
                published \in [1..n -> (1..MaxPublished) \cup {Null}],
                draft \in [1..n -> BOOLEAN] } :
            n \in 0..MaxReleases }

ReleaseInputs == DownloadInputs \cup ScheduleInputs

\* getReleaseAnalytics: calculateReleaseMetrics on the fetched releases.
ReleaseMetricsCall ==
    /\ rel.pc = "call"
    /\ ~rel.metrics.computed
    /\ rel' = [rel EXCEPT !.metrics = Computed(calculateReleaseMetrics(rel.releases))]
    /\ UNCHANGED notRelease

\* getDownloadStats: calculateDownloadStats on the fetched releases.
DownloadStatsCall ==
    /\ rel.pc = "call"
    /\ ~rel.stats.computed
    /\ rel' = [rel EXCEPT !.stats = Computed(calculateDownloadStats(rel.releases))]
    /\ UNCHANGED notRelease

(***************************************************************************)
(*                             TOOL DISPATCH                               *)
(***************************************************************************)

\* ---- bounds ----
MaxIdLen == 4         \* characters of a repository identifier (after the
                      \* URL prefix, when it has one)

\* An identifier is a string over a name character and "/"; with scheme
\* "http" it is "https://github.com/" followed by that string, with scheme
\* "badurl" it starts with "http" but is not a URL.
IdChars == {"o", "/"}
IdPaths == UNION { [1..n -> IdChars] : n \in 0..MaxIdLen }
Identifiers ==
    { [scheme |-> sc, path |-> p] : sc \in {"plain", "http"}, p \in IdPaths }
        \cup { [scheme |-> "badurl", path |-> <<>>] }

\* identifier.split("/"): the lengths of the parts.
RECURSIVE split(_)
split(str) ==
    IF str = <<>> THEN <<0>>
    ELSE LET rest == split(Tail(str))
         IN  IF Head(str) = "/" THEN <<0>> \o rest
             ELSE <<Head(rest) + 1>> \o Tail(rest)

nonEmpty(part) == part > 0

\* parseRepoIdentifier: does it return { owner, repo } or throw.
parseRepoIdentifier(identifier) ==
    IF identifier.scheme = "badurl" THEN FALSE
    ELSE IF identifier.scheme = "http"
         THEN Len(SelectSeq(split(identifier.path), nonEmpty)) >= 2
         ELSE Len(split(identifier.path)) = 2

\* What a service operation does before its first result: "parse" stands for
\* parseRepoIdentifier, any other step for a request to that endpoint.
getRepository == <<"parse", "repos.get">>
getLanguages == <<"parse", "repos.listLanguages">>
getContributors == <<"parse", "repos.listContributors">>
getReleases == <<"parse", "repos.listReleases">>
getAllReleases == <<"parse", "repos.listReleases">>
getLatestRelease == <<"parse", "repos.getLatestRelease">>
getCommitActivity == <<"parse", "repos.getCommitActivityStats">>
getOpenIssues == <<"parse", "issues.listForRepo">>
getOpenPullRequests == <<"parse", "pulls.list">>
getTrafficReferrers == <<"parse", "repos.getTopReferrers">>
getStargazersWithTimestamps == <<"parse", "activity.listStargazersForRepo">>
getAllStargazersWithTimestamps == <<"parse", "activity.listStargazersForRepo">>

\* getInfluencerAnalytics: calculateOptimalAnalysisLimit(client) first, then
\* the stargazer fetch, then the profile lookups.
getInfluencerAnalytics ==
    <<"rateLimit.get", "parse", "activity.listStargazersForRepo", "users.getByUsername">>

\* The operations a tool handler starts; those of one Promise.all run side
\* by side, each stopping at its own first failure.
ToolOperations ==
    [get_repository_info |-> <<getRepository>>,
     get_language_stats |-> <<getLanguages>>,
     get_comprehensive_stats |->
        <<getRepository, getLanguages, getContributors, getReleases,
          getCommitActivity, getOpenIssues, getOpenPullRequests,
          getAllReleases, getAllReleases,
          getRepository, getStargazersWithTimestamps>>,
     get_contributors |-> <<getContributors>>,
     get_releases |-> <<getReleases>>,
     get_all_releases |-> <<getAllReleases>>,
     get_latest_release |-> <<getLatestRelease>>,
     get_release_analytics |-> <<getAllReleases>>,
     get_download_stats |-> <<getAllReleases>>,
     get_commit_activity |-> <<getCommitActivity>>,
     get_open_issues |-> <<getOpenIssues>>,
     get_open_pull_requests |-> <<getOpenPullRequests>>,
     get_star_history |-> <<getRepository, getStargazersWithTimestamps>>,
     get_simple_star_history |-> <<getRepository>>,
     get_complete_star_history |-> <<getRepository, getAllStargazersWithTimestamps>>,
     get_stargazers |-> <<getStargazersWithTimestamps>>,
     get_all_stargazers |-> <<getAllStargazersWithTimestamps>>,
     get_influencer_stargazers |-> <<getInfluencerAnalytics>>,
     get_traffic_referrers |-> <<getTrafficReferrers>>]

ToolNames == DOMAIN ToolOperations

\* inputSchema.required of every one of these tools.
requiredFields == {"repository"}

\* validateToolArgs: every required field is a key of args.
validateToolArgs(args) == \A field \in requiredFields : field \in args.keys

ToolArgs ==
    { [present |-> TRUE, keys |-> {"repository"}, repository |-> id] : id \in Identifiers }
        \cup { [present |-> TRUE, keys |-> {}, repository |-> [scheme |-> "badurl", path |-> <<>>]],
               [present |-> FALSE, keys |-> {}, repository |-> [scheme |-> "badurl", path |-> <<>>]] }

ToolState(pc, name, args) ==
    [pc |-> pc, name |-> name, args |-> args, op |-> 1, step |-> 1,
     sent |-> <<>>, failed |-> FALSE, isError |-> FALSE]

ToolIdle ==
    tool = ToolState("idle", "get_repository_info",
                     [present |-> FALSE, keys |-> {},
                      repository |-> [scheme |-> "badurl", path |-> <<>>]])

\* The CallToolRequestSchema handler up to the call of the tool handler:
\* "Arguments are required", then validateToolArgs.
ToolDispatch ==
    /\ tool.pc = "called"
    /\ IF ~tool.args.present \/ ~validateToolArgs(tool.args)
       THEN tool' = [tool EXCEPT !.pc = "responded", !.isError = TRUE]
       ELSE tool' = [tool EXCEPT !.pc = "handler"]
    /\ UNCHANGED notTool

\* The next operation of the handler, or none left.
NextOperation(t) ==
    IF t.op < Len(ToolOperations[t.name])
    THEN [t EXCEPT !.op = @ + 1, !.step = 1]
    ELSE [t EXCEPT !.pc = "settled"]

NextStep(t) ==
    IF t.step < Len(ToolOperations[t.name][t.op])
    THEN [t EXCEPT !.step = @ + 1]
    ELSE NextOperation(t)

\* parseRepoIdentifier(identifier) inside a service operation: it returns, or
\* it throws and withErrorHandling rejects the operation.
ToolParse ==
    /\ tool.pc = "handler"
    /\ ToolOperations[tool.name][tool.op][tool.step] = "parse"
    /\ IF parseRepoIdentifier(tool.args.repository)
       THEN tool' = NextStep(tool)
       ELSE tool' = NextOperation([tool EXCEPT !.failed = TRUE])
    /\ UNCHANGED notTool

\* A service operation sends a request to the remote API.
ToolRequest ==
    /\ tool.pc = "handler"
    /\ ToolOperations[tool.name][tool.op][tool.step] # "parse"
    /\ tool' = NextStep([tool EXCEPT
                   !.sent = Append(@, ToolOperations[tool.name][tool.op][tool.step])])
    /\ UNCHANGED notTool

\* The handler's await settles: the result, or the catch's "Error: ..." text.
ToolRespond ==
    /\ tool.pc = "settled"
    /\ tool' = [tool EXCEPT !.pc = "responded", !.isError = tool.failed]
    /\ UNCHANGED notTool

(***************************************************************************)
(*                            QUOTA TRACKER                                *)
(***************************************************************************)

\* ---- bounds ----
MaxNow      == 3000   \* the clock stops ticking here (ms)
MaxReset    == 2      \* reset instants are 1..MaxReset (epoch seconds)
MaxObs      == 3      \* responses observed in one behaviour

\* ---- program constants ----
MsPerSecond == 1000
TickMs      == MsPerSecond \div 2   \* granularity of the modelled clock

Resources   == {"core", "search"}
Invocations == {1, 2}

\* A header that the response does not carry.
NoHeader == -1

\* The value stored under a resource name that has no snapshot.
Absent == [limit |-> NoHeader, remaining |-> NoHeader, used |-> NoHeader,
           reset |-> NoHeader, resource |-> ""]

HeaderLimit == 60

\* The quota headers a response can carry: each of the five fields is
\* present or missing.
CompleteHeaders ==
    { [limit |-> HeaderLimit, remaining |-> rem, used |-> HeaderLimit - rem,
       reset |-> rs, resource |-> r] :
        rem \in {0, 1}, rs \in 1..MaxReset, r \in Resources }

Drop(h, f) ==
    CASE f = "limit"     -> [h EXCEPT !.limit = NoHeader]
      [] f = "remaining" -> [h EXCEPT !.remaining = NoHeader]
      [] f = "used"      -> [h EXCEPT !.used = NoHeader]
      [] f = "reset"     -> [h EXCEPT !.reset = NoHeader]
      [] f = "resource"  -> [h EXCEPT !.resource = ""]

HeaderFields == {"limit", "remaining", "used", "reset", "resource"}

IncompleteHeaders ==
    { Drop(h, f) : h \in { c \in CompleteHeaders : c.reset = 1 }, f \in HeaderFields }
        \cup {Absent}

ResponseHeaders == CompleteHeaders \cup IncompleteHeaders

\* parseRateLimitHeaders: null (here Absent) unless all five fields are there.
parseRateLimitHeaders_lenient(headers) ==
    IF \/ headers.limit = NoHeader
       \/ headers.remaining = NoHeader
       \/ headers.reset = NoHeader
       \/ headers.resource = ""
    THEN Absent
    ELSE headers

parseRateLimitHeaders(headers) ==
    IF \/ headers.limit = NoHeader
       \/ headers.remaining = NoHeader
       \/ headers.used = NoHeader
       \/ headers.reset = NoHeader
       \/ headers.resource = ""
    THEN Absent
    ELSE headers

NullState == [isNull |-> TRUE, res |-> [r \in Resources |-> Absent]]

\* updateRateLimitState: { ...(currentState || { core: newStatus }),
\*                         [newStatus.resource]: newStatus }
updateRateLimitState(currentState, newStatus) ==
    LET baseState == IF currentState.isNull
                     THEN [r \in Resources |->
                              IF r = "core" THEN newStatus ELSE Absent]
                     ELSE currentState.res
    IN  [isNull |-> FALSE,
         res    |-> [baseState EXCEPT ![newStatus.resource] = newStatus]]

\* updateFromHeaders: the new value of currentRateLimitState.
updateFromHeaders(state, headers) ==
    LET rateLimitStatus == parseRateLimitHeaders(headers)
    IN  IF rateLimitStatus = Absent
        THEN state
        ELSE updateRateLimitState(state, rateLimitStatus)

\* isRateLimited(resource), with Date.now() = t.
isRateLimited_strictLost(state, resource, t) ==
    IF state.isNull THEN FALSE
    ELSE LET rateLimitStatus == state.res[resource]
         IN  IF rateLimitStatus = Absent THEN FALSE
             ELSE IF rateLimitStatus.remaining <= 0
                  THEN t <= rateLimitStatus.reset * MsPerSecond
                  ELSE FALSE

isRateLimited(state, resource, t) ==
    IF state.isNull THEN FALSE
    ELSE LET rateLimitStatus == state.res[resource]
         IN  IF rateLimitStatus = Absent THEN FALSE
             ELSE IF rateLimitStatus.remaining <= 0
                  THEN t < rateLimitStatus.reset * MsPerSecond
                  ELSE FALSE

\* getTimeUntilReset(resource), with Date.now() = t; milliseconds.
getTimeUntilReset(state, resource, t) ==
    IF state.isNull THEN 0
    ELSE LET rateLimitStatus == state.res[resource]
         IN  IF rateLimitStatus = Absent THEN 0
             ELSE Max(0, rateLimitStatus.reset * MsPerSecond - t)

CeilDiv(a, b) == (a + b - 1) \div b

shouldBlockRequest_floor(state, resource, t1, t2) ==
    IF ~isRateLimited(state, resource, t1)
    THEN [blocked |-> FALSE, waitTime |-> 0]
    ELSE [blocked |-> TRUE,
          waitTime |-> getTimeUntilReset(state, resource, t2) \div MsPerSecond]

\* shouldBlockRequest(resource): isRateLimited reads the clock at t1,
\* getTimeUntilReset reads it again at t2 >= t1.  waitTime is in seconds.
shouldBlockRequest(state, resource, t1, t2) ==
    IF ~isRateLimited(state, resource, t1)
    THEN [blocked |-> FALSE, waitTime |-> 0]
    ELSE [blocked |-> TRUE,
          waitTime |-> CeilDiv(getTimeUntilReset(state, resource, t2), MsPerSecond)]

\* waitForRateLimit: the duration handed to setTimeout, in milliseconds.
waitTimeMs(blockStatus) == blockStatus.waitTime * MsPerSecond

HookIdle == [pc |-> "idle", sawBlocked |-> FALSE, sawReset |-> 0,
             sawWait |-> 0, slept |-> FALSE, wakeAt |-> 0]

\* Date.now() may have advanced by one tick since the previous reading.
ClockReadings(from) == { t \in {from, from + TickMs} : t <= MaxNow }

\* The clock advances on its own.
Tick ==
    /\ UNCHANGED notQuota
    /\ now + TickMs <= MaxNow
    /\ now' = now + TickMs
    /\ UNCHANGED <<currentRateLimitState, hook, lastObs, nObs, lastHeaders>>

\* createRateLimitHook().before, the request is not blocked:
\* shouldBlockRequest() reads the clock once and the request proceeds.
HookBeforeOpen(i) ==
    /\ UNCHANGED notQuota
    /\ hook[i].pc = "idle"
    /\ nObs < MaxObs
    /\ \E t1 \in ClockReadings(now) :
         LET blockStatus == shouldBlockRequest(currentRateLimitState, "core", t1, t1)
         IN  /\ ~blockStatus.blocked
             /\ now' = t1
             /\ hook' = [hook EXCEPT ![i] = [HookIdle EXCEPT !.pc = "request"]]
    /\ UNCHANGED <<currentRateLimitState, lastObs, nObs, lastHeaders>>

\* createRateLimitHook().before, the request is blocked: shouldBlockRequest()
\* reads the clock twice (t1, t2); with a positive waitTime waitForRateLimit()
\* evaluates shouldBlockRequest() again (t3, t4) and either returns at once
\* or starts the timer; with no waitTime the hook throws a rate limit error.
HookBeforeBlocked(i) ==
    /\ UNCHANGED notQuota
    /\ hook[i].pc = "idle"
    /\ nObs < MaxObs
    /\ \E t1 \in ClockReadings(now) : \E t2 \in ClockReadings(t1) :
         LET blockStatus == shouldBlockRequest(currentRateLimitState, "core", t1, t2)
             seen == [HookIdle EXCEPT
                        !.sawBlocked = TRUE,
                        !.sawReset = currentRateLimitState.res["core"].reset,
                        !.sawWait = blockStatus.waitTime]
         IN  /\ blockStatus.blocked
             /\ IF blockStatus.waitTime > 0
                THEN \E t3 \in ClockReadings(t2) : \E t4 \in ClockReadings(t3) :
                       LET again == shouldBlockRequest(currentRateLimitState,
                                                       "core", t3, t4)
                       IN  /\ now' = t4
                           /\ IF ~again.blocked \/ again.waitTime = 0
                              THEN hook' = [hook EXCEPT ![i] =
                                              [seen EXCEPT !.pc = "request"]]
                              ELSE hook' = [hook EXCEPT ![i] =
                                              [seen EXCEPT !.pc = "sleeping",
                                                 !.wakeAt = t4 + waitTimeMs(again)]]
                ELSE /\ now' = t2
                     /\ hook' = [hook EXCEPT ![i] = [seen EXCEPT !.pc = "error"]]
    /\ UNCHANGED <<currentRateLimitState, lastObs, nObs, lastHeaders>>

\* The timer of waitForRateLimit fires; the request proceeds.
HookWake(i) ==
    /\ UNCHANGED notQuota
    /\ hook[i].pc = "sleeping"
    /\ now >= hook[i].wakeAt
    /\ hook' = [hook EXCEPT ![i].pc = "request", ![i].slept = TRUE]
    /\ UNCHANGED <<currentRateLimitState, now, lastObs, nObs, lastHeaders>>

Record(obs, headers) ==
    IF parseRateLimitHeaders(headers) = Absent
    THEN obs
    ELSE [obs EXCEPT ![headers.resource] = headers]

\* createRateLimitHook().after: the response arrived, its headers are recorded.
HookAfter(i) ==
    /\ UNCHANGED notQuota
    /\ hook[i].pc = "request"
    /\ \E headers \in ResponseHeaders :
         /\ currentRateLimitState' = updateFromHeaders(currentRateLimitState, headers)
         /\ lastObs' = Record(lastObs, headers)
         /\ lastHeaders' = headers
    /\ hook' = [hook EXCEPT ![i] = HookIdle]
    /\ nObs' = nObs + 1
    /\ UNCHANGED now

\* createRateLimitHook().error: the headers of a 403 / 429 are recorded before
\* the error is rethrown; any other error is rethrown untouched.
HookError(i) ==
    /\ UNCHANGED notQuota
    /\ hook[i].pc = "request"
    /\ \E status \in {403, 404, 429} : \E headers \in ResponseHeaders :
         IF status \in {403, 429}
         THEN /\ currentRateLimitState' =
                    updateFromHeaders(currentRateLimitState, headers)
              /\ lastObs' = Record(lastObs, headers)
              /\ lastHeaders' = headers
         ELSE UNCHANGED <<currentRateLimitState, lastObs, lastHeaders>>
    /\ hook' = [hook EXCEPT ![i] = HookIdle]
    /\ nObs' = nObs + 1
    /\ UNCHANGED now

\* The rate limit error thrown by the before-step reached the caller.
HookThrown(i) ==
    /\ UNCHANGED notQuota
    /\ hook[i].pc = "error"
    /\ hook' = [hook EXCEPT ![i] = HookIdle]
    /\ UNCHANGED <<currentRateLimitState, now, lastObs, nObs, lastHeaders>>

(***************************************************************************)
(*                        TEXT AND PURE CALCULATIONS                       *)
(***************************************************************************)

\* ---- bounds ----
MaxInfluencers == 3   \* profiles in the small lists handed to the analysis

\* A string is the sequence of its characters.
UpperLetters ==
    <<"A", "B", "C", "D", "E", "F", "G", "H", "I", "J", "K", "L", "M", "N", "O", "P", "Q", "R", "S", "T", "U", "V", "W", "X", "Y", "Z">>
LowerLetters ==
    <<"a", "b", "c", "d", "e", "f", "g", "h", "i", "j", "k", "l", "m", "n", "o", "p", "q", "r", "s", "t", "u", "v", "w", "x", "y", "z">>

lowerChar(c) ==
    IF \E k \in 1..Len(UpperLetters) : UpperLetters[k] = c
    THEN LowerLetters[CHOOSE k \in 1..Len(UpperLetters) : UpperLetters[k] = c]
    ELSE c

\* String.prototype.toLowerCase
toLowerCase(text) == [k \in 1..Len(text) |-> lowerChar(text[k])]

\* String.prototype.includes
includes(text, part) ==
    \E i \in 0..(Len(text) - Len(part)) : SubSeq(text, i + 1, i + Len(part)) = part

CalcState(pc, fn, input) == [pc |-> pc, fn |-> fn, input |-> input, output |-> <<>>]

CalcIdle == calc = CalcState("idle", "none", <<>>)

\* ---- identifyNotableStargazers ----

notableCompanies ==
    << <<"G", "i", "t", "H", "u", "b">>,
       <<"M", "i", "c", "r", "o", "s", "o", "f", "t">>,
       <<"G", "o", "o", "g", "l", "e">>,
       <<"M", "e", "t", "a">>,
       <<"A", "p", "p", "l", "e">>,
       <<"N", "e", "t", "f", "l", "i", "x">>,
       <<"A", "m", "a", "z", "o", "n">>,
       <<"V", "e", "r", "c", "e", "l">>,
       <<"S", "t", "r", "i", "p", "e">> >>

Influencer(login, followers, company, influence_score) ==
    [login |-> login, followers |-> followers, company |-> company,
     influence_score |-> influence_score]

\* (u) => u.followers >= 10000
isMega(u) == u.followers >= 10000

\* (u) => u.company && notableCompanies.some((company) =>
\*            u.company.toLowerCase().includes(company.toLowerCase()))
worksAtNotable(u) ==
    /\ u.company # <<>>
    /\ \E k \in 1..Len(notableCompanies) :
          includes(toLowerCase(u.company), toLowerCase(notableCompanies[k]))

\* [...influencers].sort((a, b) => b.influence_score - a.influence_score)
\* The sort is stable: an influencer comes after those of a higher score
\* and after the earlier ones of the same score.
sortByScore(influencers, k) ==
    LET before(i) ==
            Cardinality({ j \in 1..k :
                \/ influencers[j].influence_score > influencers[i].influence_score
                \/ /\ influencers[j].influence_score = influencers[i].influence_score
                   /\ j < i })
    IN  [r \in 1..k |-> influencers[CHOOSE i \in 1..k : before(i) = r - 1]]

Notable(u, reason) == [login |-> u.login, reason |-> reason]

\* topInfluencers.slice(0, 5).forEach: push unless the login is in notable.
RECURSIVE pushTop(_, _, _)
pushTop(notable, top, k) ==
    IF k > Len(top) THEN notable
    ELSE IF \E j \in 1..Len(notable) : notable[j].login = top[k].login
         THEN pushTop(notable, top, k + 1)
         ELSE pushTop(Append(notable, Notable(top[k], "score")), top, k + 1)

\* identifyNotableStargazers(influencers)
identifyNotableStargazers(influencers) ==
    LET mega == slice(SelectSeq(influencers, isMega), 10)
        corp == slice(SelectSeq(influencers, worksAtNotable), 5)
        notable == [k \in 1..Len(mega) |-> Notable(mega[k], "followers")]
                      \o [k \in 1..Len(corp) |-> Notable(corp[k], "company")]
        top == slice(sortByScore(influencers, Len(influencers)), 5)
    IN  slice(pushTop(notable, top, 1), 20)

\* The company fields of the profiles analysed.
Companies ==
    { <<>>,
      <<"G", "O", "O", "G", "L", "E", " ", "L", "L", "C">>,
      <<"A", "c", "m", "e">> }

\* Small lists of profiles of every kind, and crowds of twelve profiles of
\* one kind; the login of a profile is its rank in the list.
InfluencerInputs ==
    UNION { { [k \in 1..n |-> Influencer(k, followers[k], company[k], score[k])] :
                followers \in [1..n -> {9999, 10000}],
                company \in [1..n -> Companies],
                score \in [1..n -> {1, 2}] } :
            n \in 0..MaxInfluencers }
      \cup { [k \in 1..12 |-> Influencer(k, followers, company, k)] :
                followers \in {9999, 10000}, company \in Companies }

NotableCall ==
    /\ calc.pc = "call" /\ calc.fn = "identifyNotableStargazers"
    /\ calc' = [calc EXCEPT !.pc = "done",
                  !.output = identifyNotableStargazers(calc.input)]
    /\ UNCHANGED notCalc

\* ---- calculateAssetTypes, calculateDownloadDistribution ----

\* ---- bounds ----
MaxAssets == 3        \* assets handed to the asset-type calculations

unknown == <<"u", "n", "k", "n", "o", "w", "n">>

\* asset.name.split(".").pop(): what follows the last ".", the whole name
\* when it has none.
splitPop(name) ==
    LET dots == { k \in 1..Len(name) : name[k] = "." }
        last == IF dots = {} THEN 0 ELSE CHOOSE k \in dots : \A other \in dots : other <= k
    IN  SubSeq(name, last + 1, Len(name))

\* asset.name.split(".").pop()?.toLowerCase() || "unknown"
extension(name) ==
    LET lowered == toLowerCase(splitPop(name))
    IN  IF lowered = <<>> THEN unknown ELSE lowered

NamedAsset(name, download_count) == [name |-> name, download_count |-> download_count]

\* calculateAssetTypes: extension -> number of assets.
calculateAssetTypes(assets) ==
    [ext \in { extension(assets[k].name) : k \in 1..Len(assets) } |->
        Cardinality({ k \in 1..Len(assets) : extension(assets[k].name) = ext })]

\* calculateDownloadDistribution(...).by_file_type: extension -> downloads.
calculateDownloadDistribution(assets) ==
    [ext \in { extension(assets[k].name) : k \in 1..Len(assets) } |->
        LET Typed(asset) == extension(asset.name) = ext
            typed == SelectSeq(assets, Typed)
        IN  sum([k \in 1..Len(typed) |-> typed[k].download_count])]

AssetNames ==
    { <<"a", "p", "p", ".", "Z", "I", "P">>, <<"L", "I", "C", "E", "N", "S", "E">>, <<"n", "o", "t", "e", "s", ".">>, <<"s", "r", "c", ".", "t", "a", "r", ".", "g", "z">>, <<".", "e", "n", "v">> }

AssetInputs ==
    UNION { { [k \in 1..n |-> NamedAsset(names[k], downloads[k])] :
                names \in [1..n -> AssetNames], downloads \in [1..n -> {1, 2}] } :
            n \in 0..MaxAssets }

AssetTypesCall ==
    /\ calc.pc = "call" /\ calc.fn = "calculateAssetTypes"
    /\ calc' = [calc EXCEPT !.pc = "done", !.output = calculateAssetTypes(calc.input)]
    /\ UNCHANGED notCalc

DownloadDistributionCall ==
    /\ calc.pc = "call" /\ calc.fn = "calculateDownloadDistribution"
    /\ calc' = [calc EXCEPT !.pc = "done",
                  !.output = calculateDownloadDistribution(calc.input)]
    /\ UNCHANGED notCalc

\* ---- truncateResponse ----

\* ---- bounds ----
MaxArray == 6         \* length of the array field of a payload

\* ---- program constants ----
DEFAULT_MAX_RESPONSE_CHARS == 90000
InfoChars == 3        \* serialized size of the truncation_info block

NoInfo == [total_available |-> 0, showing |-> 0, truncated |-> FALSE]

\* A payload: the serialized size of its other fields, and its array field
\* (absent from some payloads) as the serialized sizes of its elements.
Payload(other, hasArray, array) ==
    [kind |-> "data", other |-> other, hasArray |-> hasArray, array |-> array,
     truncation_info |-> NoInfo]

\* JSON.stringify(data, null, 2).length
jsonLength(data) ==
    data.other
      + sum([k \in 1..Len(data.array) |-> data.array[k].chars])
      + (IF data.truncation_info.truncated THEN InfoChars ELSE 0)

\* testString.length <= MAX_RESPONSE_CHARS
fits_strict(length, budget) == length < budget
fits(length, budget) == length <= budget

\* Math.floor(targetSize * 0.8)
shrinkTarget_half(size) == size \div 2
shrinkTarget(size) == (size * 8) \div 10

\* { ...data, [arrayFieldName]: originalArray.slice(0, targetSize), truncation_info }
truncatedData(data, targetSize) ==
    [data EXCEPT !.array = slice(data.array, targetSize),
                 !.truncation_info = [total_available |-> Len(data.array),
                                      showing |-> targetSize, truncated |-> TRUE]]

\* The fallback payload.
tooLarge(data) ==
    [kind |-> "error", other |-> 0, hasArray |-> FALSE, array |-> <<>>,
     truncation_info |-> [total_available |-> Len(data.array), showing |-> 0,
                          truncated |-> FALSE]]

Truncation(data, wasTruncated) == [data |-> data, wasTruncated |-> wasTruncated]

\* while (targetSize > 0) { ... }
RECURSIVE truncateLoop(_, _, _)
truncateLoop(data, targetSize, budget) ==
    IF targetSize > 0
    THEN IF fits(jsonLength(truncatedData(data, targetSize)), budget)
         THEN Truncation(truncatedData(data, targetSize), TRUE)
         ELSE truncateLoop(data, shrinkTarget(targetSize), budget)
    ELSE Truncation(tooLarge(data), TRUE)

\* truncateResponse(data, arrayFieldName, maxChars); maxChars = 0 stands for
\* an omitted maxChars.
truncateResponse(data, maxChars) ==
    LET MAX_RESPONSE_CHARS ==
            IF maxChars = 0 THEN DEFAULT_MAX_RESPONSE_CHARS ELSE maxChars
    IN  IF fits(jsonLength(data), MAX_RESPONSE_CHARS) THEN Truncation(data, FALSE)
        ELSE IF ~data.hasArray THEN Truncation(data, FALSE)
        ELSE truncateLoop(data, shrinkTarget(Len(data.array)), MAX_RESPONSE_CHARS)

Element(id, chars) == [id |-> id, chars |-> chars]

PayloadInputs ==
    UNION { { Payload(other, TRUE, [k \in 1..n |-> Element(k, chars[k])]) :
                other \in {2, 12}, chars \in [1..n -> {1, 4}] } :
            n \in 0..MaxArray }
      \cup { Payload(other, FALSE, <<>>) : other \in {2, 12, 25} }

Budgets == {0, 10, 20}

\* A handler truncates the payload it is about to return.
TruncateCall ==
    /\ calc.pc = "call" /\ calc.fn = "truncateResponse"
    /\ calc' = [calc EXCEPT !.pc = "done",
                  !.output = <<truncateResponse(calc.input.data, calc.input.maxChars)>>]
    /\ UNCHANGED notCalc

\* truncateResponse is applied to what it returned.
TruncateAgain ==
    /\ calc.pc = "done" /\ calc.fn = "truncateResponse"
    /\ calc.output[1].data.kind = "data"
    /\ calc' = [calc EXCEPT !.pc = "again",
                  !.output = Append(@, truncateResponse(calc.output[1].data,
                                                         calc.input.maxChars))]
    /\ UNCHANGED notCalc

\* ---- calculateInfluenceScore ----

\* Scores and their terms are held in thousandths, account ages in tenths
\* of a year.

\* Math.log10(x) in thousandths, rounded down, for the arguments used.
log10 ==
    [x \in {1, 2, 3, 10, 11, 100, 101, 1000, 10000, 100000} |->
        CASE x = 1 -> 0      [] x = 2 -> 301     [] x = 3 -> 477
          [] x = 10 -> 1000  [] x = 11 -> 1041   [] x = 100 -> 2000
          [] x = 101 -> 2004 [] x = 1000 -> 3000 [] x = 10000 -> 4000
          [] x = 100000 -> 5000]

\* Math.log10(followers + 1) * 10
normalizedFollowers(followers) == log10[followers + 1] * 10

\* Math.min(repos / 10, 10)
normalizedRepos_uncapped(repos) == repos * 100
normalizedRepos(repos) == Min(repos * 100, 10000)

\* Math.min(accountAgeYears, 10)
normalizedAge(ageTenths) == Min(ageTenths * 100, 10000)

\* followerWeight = 0.6, repoWeight = 0.2, ageWeight = 0.2
calculateInfluenceScore(followers, repos, ageTenths) ==
    (normalizedFollowers(followers) * 6) \div 10
      + (normalizedRepos(repos) * 2) \div 10
      + (normalizedAge(ageTenths) * 2) \div 10

FollowerCounts == {0, 1, 2, 9, 10, 99, 100, 999, 9999, 99999}
RepoCounts == {0, 1, 50, 99, 100, 101, 250}
AgesTenths == {0, 5, 99, 100, 101, 150}

ScoreInputs ==
    [followers : FollowerCounts, public_repos : RepoCounts, ageTenths : AgesTenths]

\* A fetched profile is scored.
InfluenceScoreCall ==
    /\ calc.pc = "call" /\ calc.fn = "calculateInfluenceScore"
    /\ calc' = [calc EXCEPT !.pc = "done",
                  !.output = <<calculateInfluenceScore(calc.input.followers,
                                                       calc.input.public_repos,
                                                       calc.input.ageTenths)>>]
    /\ UNCHANGED notCalc

\* The score of the profile is read again with one of its inputs raised.
InfluenceScoreRaise ==
    /\ calc.pc = "done" /\ calc.fn = "calculateInfluenceScore"
    /\ Len(calc.output) = 1
    /\ \E raised \in ScoreInputs :
         /\ raised.followers >= calc.input.followers
         /\ raised.public_repos >= calc.input.public_repos
         /\ raised.ageTenths >= calc.input.ageTenths
         /\ raised # calc.input
         /\ calc' = [calc EXCEPT !.pc = "raised",
                       !.output = <<calc.output[1], raised,
                                    calculateInfluenceScore(raised.followers,
                                                            raised.public_repos,
                                                            raised.ageTenths)>>]
    /\ UNCHANGED notCalc

(***************************************************************************)
(*                         INFLUENCER ANALYTICS                            *)
(***************************************************************************)

\* ---- bounds ----
MaxStargazers == 450  \* longest stargazer listing of a repository

\* ---- program constants ----
DefaultReturnLimit == 100
MaxReturnLimit == 200
TopInfluencers == 50

\* Math.min(args.limit || 100, 200); limit = 0 stands for an omitted limit.
returnLimit(limit) ==
    Min(IF limit = 0 THEN DefaultReturnLimit ELSE limit, MaxReturnLimit)

\* allStargazers.slice(-analysisLimit)
sliceLast_first(array, count) == SubSeq(array, 1, Min(count, Len(array)))
sliceLast(array, count) ==
    IF count = 0 THEN array
    ELSE SubSeq(array, Max(Len(array) - count, 0) + 1, Len(array))

\* allStargazers.length > analysisLimit ? allStargazers.slice(-analysisLimit)
\*                                      : allStargazers
stargazersToAnalyze(allStargazers, analysisLimit) ==
    IF Len(allStargazers) > analysisLimit
    THEN sliceLast(allStargazers, analysisLimit)
    ELSE allStargazers

\* The listing of a repository with n stargazers, oldest first.
Listing(n) == [k \in 1..n |-> Stargazer(k)]

\* The influence score found on the profile of a login.
scoreOf(login) == (login * 37) % 101

\* fetchUserProfile: the profile of a stargazer, null when the lookup fails.
fetchUserProfile(stargazer, reachable) ==
    IF stargazer.login \in reachable
    THEN Influencer(stargazer.login, 0, <<>>, scoreOf(stargazer.login))
    ELSE NullProfile

\* processInBatches(stargazers, fetchUserProfile, ...): the non-null results
\* in order.
getInfluencerProfiles(stargazers, reachable) ==
    SelectSeq([k \in 1..Len(stargazers) |-> fetchUserProfile(stargazers[k], reachable)],
              LAMBDA profile : profile # NullProfile)

\* analyzeInfluencers(influencers).top_influencers
analyzeInfluencers(influencers) ==
    slice(sortByScore(influencers, Len(influencers)), TopInfluencers)

\* "Trim to requested number of top influencers"
trimTop(top_influencers, limit) ==
    IF Len(top_influencers) > limit THEN slice(top_influencers, limit)
    ELSE top_influencers

InfluencerState(pc, limit, hasToken) ==
    [pc |-> pc, limit |-> limit, returnLimit |-> returnLimit(limit),
     hasToken |-> hasToken, plan |-> Plan(0, FALSE),
     allStargazers |-> <<>>, stargazers |-> <<>>, lookups |-> <<>>,
     influencers |-> <<>>, top_influencers |-> <<>>]

InfluencerIdle == inf = InfluencerState("idle", 0, FALSE)

LimitArgs == {0, 30, 50, 100, 500}
PlanRemaining == {0, 60, 150, 501, 700}
StargazerCounts == {0, 30, 120, MaxStargazers}

\* The logins whose profile lookup succeeds.
ReachableLogins ==
    { 1..120, { k \in 1..MaxStargazers : k % 3 = 0 } }

\* calculateOptimalAnalysisLimit answered from the quota lookup.
InfluencerPlanned ==
    /\ inf.pc = "plan"
    /\ \E remaining \in PlanRemaining :
         inf' = [inf EXCEPT !.pc = "fetch",
                   !.plan = calculateOptimalAnalysisLimit(inf.hasToken, remaining)]
    /\ UNCHANGED notInfluencer

\* calculateOptimalAnalysisLimit answered with its safe defaults.
InfluencerPlanDefaults ==
    /\ inf.pc = "plan"
    /\ inf' = [inf EXCEPT !.pc = "fetch", !.plan = safeDefaults(inf.hasToken)]
    /\ UNCHANGED notInfluencer

\* shouldUseAllStargazers: the whole listing is fetched, the most recent
\* analysisLimit stargazers are kept.
InfluencerFetchAll ==
    /\ inf.pc = "fetch" /\ inf.plan.shouldUseAllStargazers
    /\ \E n \in StargazerCounts :
         inf' = [inf EXCEPT !.pc = "profiles",
                   !.allStargazers = Listing(n),
                   !.stargazers = stargazersToAnalyze(Listing(n),
                                                      inf.plan.analysisLimit)]
    /\ UNCHANGED notInfluencer

\* Otherwise: getStargazersWithTimestamps(identifier, analysisLimit).
InfluencerFetchCapped ==
    /\ inf.pc = "fetch" /\ ~inf.plan.shouldUseAllStargazers
    /\ \E n \in StargazerCounts :
         inf' = [inf EXCEPT !.pc = "profiles",
                   !.stargazers = slice(Listing(n), inf.plan.analysisLimit)]
    /\ UNCHANGED notInfluencer

\* The stargazer fetch threw.
InfluencerFetchFailed ==
    /\ inf.pc = "fetch"
    /\ inf' = [inf EXCEPT !.pc = "failed"]
    /\ UNCHANGED notInfluencer

\* getInfluencerProfiles: one lookup per stargazer, in order.
InfluencerProfiles ==
    /\ inf.pc = "profiles"
    /\ \E reachable \in ReachableLogins :
         inf' = [inf EXCEPT !.pc = "analyze",
                   !.lookups = [k \in 1..Len(inf.stargazers) |->
                                   inf.stargazers[k].login],
                   !.influencers = getInfluencerProfiles(inf.stargazers, reachable)]
    /\ UNCHANGED notInfluencer

\* analyzeInfluencers, then the trim to returnLimit.
InfluencerAnalyzed ==
    /\ inf.pc = "analyze"
    /\ inf' = [inf EXCEPT !.pc = "done",
                  !.top_influencers = trimTop(analyzeInfluencers(inf.influencers),
                                              inf.returnLimit)]
    /\ UNCHANGED notInfluencer

(***************************************************************************)
(*                            POLLING RETRY                                *)
(***************************************************************************)

\* ---- bounds ----
MaxRetries == 3       \* largest maxRetries a caller passes

\* What one invocation of the operation yields: a value the caller's
\* predicate accepts, one it rejects, or an exception.
Valid(value) == [kind |-> "valid", value |-> value]
Invalid(value) == [kind |-> "invalid", value |-> value]
Thrown == [kind |-> "thrown", value |-> 0]

OperationResults == {Valid(1), Valid(2), Invalid(0), Invalid(202), Thrown}

isValidResult(result) == result.kind = "valid"

\* for (let attempt = 0; attempt < maxRetries; attempt++)
moreAttempts_inclusive(attempt, maxRetries) == attempt <= maxRetries
moreAttempts(attempt, maxRetries) == attempt < maxRetries

\* if (attempt < maxRetries - 1) await delay(delayMs)
delayBetween(attempt, maxRetries) == attempt < maxRetries - 1

RetryState(pc, maxRetries, delayMs) ==
    [pc |-> pc, maxRetries |-> maxRetries, delayMs |-> delayMs, attempt |-> 0,
     results |-> <<>>, sleeps |-> 0, waited |-> 0, output |-> 0]

RetryIdle == retry = RetryState("idle", 0, 0)

\* One polled attempt of the loop: the operation is invoked and its result
\* tested.
PolledAttempt ==
    /\ retry.pc = "attempt"
    /\ moreAttempts(retry.attempt, retry.maxRetries)
    /\ \E result \in OperationResults :
         retry' =
           IF result = Thrown
           THEN [retry EXCEPT !.pc = "threw", !.results = Append(@, result)]
           ELSE IF isValidResult(result)
           THEN [retry EXCEPT !.pc = "returned", !.results = Append(@, result),
                              !.output = result.value]
           ELSE IF delayBetween(retry.attempt, retry.maxRetries)
           THEN [retry EXCEPT !.pc = "delay", !.results = Append(@, result)]
           ELSE [retry EXCEPT !.attempt = @ + 1, !.results = Append(@, result)]
    /\ UNCHANGED notRetry

\* await delay(delayMs) completes; attempt++.
RetryDelayElapsed ==
    /\ retry.pc = "delay"
    /\ retry' = [retry EXCEPT !.pc = "attempt", !.attempt = @ + 1,
                   !.sleeps = @ + 1, !.waited = @ + retry.delayMs]
    /\ UNCHANGED notRetry

\* The attempt after the loop.
FinalAttempt ==
    /\ retry.pc = "attempt"
    /\ ~moreAttempts(retry.attempt, retry.maxRetries)
    /\ \E result \in OperationResults :
         retry' =
           IF result = Thrown
           THEN [retry EXCEPT !.pc = "threw", !.results = Append(@, result)]
           ELSE IF isValidResult(result)
           THEN [retry EXCEPT !.pc = "returned", !.results = Append(@, result),
                              !.output = result.value]
           ELSE [retry EXCEPT !.pc = "failed", !.results = Append(@, result)]
    /\ UNCHANGED notRetry

(***************************************************************************)
(*                           SPECIFICATIONS                                *)
(***************************************************************************)



OthersIdle == CalcIdle /\ RetryIdle /\ InfluencerIdle

QuotaStart ==
    /\ currentRateLimitState = NullState
    /\ now = 0
    /\ hook = [i \in Invocations |-> HookIdle]
    /\ lastObs = [r \in Resources |-> Absent]
    /\ nObs = 0
    /\ lastHeaders = Absent

InitQuota ==
    /\ QuotaStart /\ FetchIdle /\ EnrichIdle /\ PlanIdle /\ StarIdle /\ ToolIdle
    /\ ReleaseIdle /\ OthersIdle

NextQuota ==
    \/ Tick
    \/ \E i \in Invocations : HookBeforeOpen(i)
    \/ \E i \in Invocations : HookBeforeBlocked(i)
    \/ \E i \in Invocations : HookWake(i)
    \/ \E i \in Invocations : HookAfter(i)
    \/ \E i \in Invocations : HookError(i)
    \/ \E i \in Invocations : HookThrown(i)

SpecQuota == InitQuota /\ [][NextQuota]_vars

\* A fetch is called on some repository: the listing it will walk.
InitFetch ==
    /\ QuotaStart
    /\ ReleaseIdle
    /\ OthersIdle
    /\ EnrichIdle
    /\ PlanIdle
    /\ StarIdle
    /\ ToolIdle
    /\ listN \in ListingSizes
    /\ ghosts \in {{}} \cup {{g} : g \in {1, listN} \cap (1..listN)}
    /\ \E op \in FetchOps :
         \E limit \in (IF op = "getStargazersWithTimestamps" THEN Limits ELSE {0}) :
            fetch = [FetchState(op, "request") EXCEPT !.limit = limit]

NextFetch ==
    \/ StargazersPage
    \/ StargazersError
    \/ FallbackPage
    \/ FallbackError
    \/ PauseElapsed
    \/ CappedPage
    \/ CappedError
    \/ CappedFallbackPage
    \/ CappedFallbackError
    \/ AllReleasesPage
    \/ AllReleasesError
    \/ GetReleasesResponse
    \/ GetReleasesError
    \/ GetLatestReleaseResponse
    \/ GetLatestReleaseError
    \/ GetTrafficReferrersResponse
    \/ GetTrafficReferrersError

SpecFetch == InitFetch /\ [][NextFetch]_vars

\* processInBatches / getInfluencerProfiles is called on a list of stargazers.
InitBatch ==
    /\ QuotaStart
    /\ ReleaseIdle
    /\ OthersIdle
    /\ FetchIdle
    /\ PlanIdle
    /\ StarIdle
    /\ ToolIdle
    /\ \E n \in 0..MaxItems : \E batchSize \in BatchSizes : \E delayMs \in DelaysMs :
         enrich = EnrichState([k \in 1..n |-> Stargazer(k)], batchSize, delayMs, "loop")

NextBatch ==
    \/ BatchStart
    \/ \E k \in 1..MaxItems : LookupSucceeds(k)
    \/ \E k \in 1..MaxItems : LookupFails(k)
    \/ BatchResolved
    \/ DelayElapsed

SpecBatch == InitBatch /\ [][NextBatch]_vars

\* calculateOptimalAnalysisLimit is called, with or without GITHUB_TOKEN set.
InitPlan ==
    /\ QuotaStart
    /\ ReleaseIdle
    /\ OthersIdle
    /\ FetchIdle
    /\ EnrichIdle
    /\ StarIdle
    /\ ToolIdle
    /\ \E hasToken \in BOOLEAN : plan = PlanState("lookup", hasToken)

NextPlan ==
    \/ PlanQuotaAnswered
    \/ PlanQuotaFailed

SpecPlan == InitPlan /\ [][NextPlan]_vars

\* calculateStarHistory is called on a list of stargazers.
InitStar ==
    /\ QuotaStart
    /\ ReleaseIdle
    /\ OthersIdle
    /\ FetchIdle
    /\ EnrichIdle
    /\ PlanIdle
    /\ ToolIdle
    /\ \E stargazers \in StargazerInputs : \E currentStars \in StarCounts :
         star = [StarState("call", stargazers) EXCEPT !.current_stars = currentStars]

NextStar == calculateStarHistory

SpecStar == InitStar /\ [][NextStar]_vars

\* calculateMilestones is called on history points and a star total.
InitMilestone ==
    /\ QuotaStart
    /\ ReleaseIdle
    /\ OthersIdle
    /\ FetchIdle
    /\ EnrichIdle
    /\ PlanIdle
    /\ ToolIdle
    /\ \E points \in HistoryInputs : \E currentStars \in CurrentStars :
         star = [StarState("milestones", <<>>) EXCEPT
                    !.history_points = points, !.current_stars = currentStars]

NextMilestone == MilestonesCall

SpecMilestone == InitMilestone /\ [][NextMilestone]_vars

\* A tool that takes a repository identifier is called.
InitTool ==
    /\ QuotaStart
    /\ ReleaseIdle
    /\ OthersIdle
    /\ FetchIdle
    /\ EnrichIdle
    /\ PlanIdle
    /\ StarIdle
    /\ \E name \in ToolNames : \E args \in ToolArgs :
         tool = ToolState("called", name, args)

NextTool ==
    \/ ToolDispatch
    \/ ToolParse
    \/ ToolRequest
    \/ ToolRespond

SpecTool == InitTool /\ [][NextTool]_vars

\* The release calculations are called on a list of releases.
InitRelease ==
    /\ QuotaStart
    /\ OthersIdle
    /\ FetchIdle
    /\ EnrichIdle
    /\ PlanIdle
    /\ StarIdle
    /\ ToolIdle
    /\ \E releases \in ReleaseInputs : rel = ReleaseState("call", releases)

NextRelease ==
    \/ ReleaseMetricsCall
    \/ DownloadStatsCall

SpecRelease == InitRelease /\ [][NextRelease]_vars

\* identifyNotableStargazers is called on a list of profiles.
InitNotable ==
    /\ QuotaStart /\ FetchIdle /\ EnrichIdle /\ PlanIdle /\ StarIdle /\ ToolIdle
    /\ ReleaseIdle /\ RetryIdle /\ InfluencerIdle
    /\ \E influencers \in InfluencerInputs :
         calc = CalcState("call", "identifyNotableStargazers", influencers)

NextNotable == NotableCall

SpecNotable == InitNotable /\ [][NextNotable]_vars

\* The asset-type calculations are called on the assets of the releases.
InitAssets ==
    /\ QuotaStart /\ FetchIdle /\ EnrichIdle /\ PlanIdle /\ StarIdle /\ ToolIdle
    /\ ReleaseIdle /\ RetryIdle /\ InfluencerIdle
    /\ \E assets \in AssetInputs :
         \E fn \in {"calculateAssetTypes", "calculateDownloadDistribution"} :
            calc = CalcState("call", fn, assets)

NextAssets ==
    \/ AssetTypesCall
    \/ DownloadDistributionCall

SpecAssets == InitAssets /\ [][NextAssets]_vars

\* truncateResponse is called on a payload with a character budget.
InitTruncate ==
    /\ QuotaStart /\ FetchIdle /\ EnrichIdle /\ PlanIdle /\ StarIdle /\ ToolIdle
    /\ ReleaseIdle /\ RetryIdle /\ InfluencerIdle
    /\ \E data \in PayloadInputs : \E maxChars \in Budgets :
         calc = CalcState("call", "truncateResponse",
                          [data |-> data, maxChars |-> maxChars])

NextTruncate ==
    \/ TruncateCall
    \/ TruncateAgain

SpecTruncate == InitTruncate /\ [][NextTruncate]_vars

\* A profile is scored, and scored again with raised inputs.
InitScore ==
    /\ QuotaStart /\ FetchIdle /\ EnrichIdle /\ PlanIdle /\ StarIdle /\ ToolIdle
    /\ ReleaseIdle /\ RetryIdle /\ InfluencerIdle
    /\ \E input \in ScoreInputs :
         calc = CalcState("call", "calculateInfluenceScore", input)

NextScore ==
    \/ InfluenceScoreCall
    \/ InfluenceScoreRaise

SpecScore == InitScore /\ [][NextScore]_vars

\* get_influencer_stargazers is called with a limit.
InitInfluencer ==
    /\ QuotaStart /\ FetchIdle /\ EnrichIdle /\ PlanIdle /\ StarIdle /\ ToolIdle
    /\ ReleaseIdle /\ CalcIdle /\ RetryIdle
    /\ \E limit \in LimitArgs : \E hasToken \in BOOLEAN :
         inf = InfluencerState("plan", limit, hasToken)

NextInfluencer ==
    \/ InfluencerPlanned
    \/ InfluencerPlanDefaults
    \/ InfluencerFetchAll
    \/ InfluencerFetchCapped
    \/ InfluencerFetchFailed
    \/ InfluencerProfiles
    \/ InfluencerAnalyzed

SpecInfluencer == InitInfluencer /\ [][NextInfluencer]_vars

\* withRetry is called with a retry count and a delay; every step of the
\* call is eventually taken.
InitRetry ==
    /\ QuotaStart /\ FetchIdle /\ EnrichIdle /\ PlanIdle /\ StarIdle /\ ToolIdle
    /\ ReleaseIdle /\ CalcIdle /\ InfluencerIdle
    /\ \E maxRetries \in 0..MaxRetries : \E delayMs \in {0, MsPerSecond} :
         retry = RetryState("attempt", maxRetries, delayMs)

NextRetry ==
    \/ PolledAttempt
    \/ RetryDelayElapsed
    \/ FinalAttempt

SpecRetry == InitRetry /\ [][NextRetry]_vars /\ WF_vars(NextRetry)

(***************************************************************************)
(*                              PROPERTIES                                 *)
(***************************************************************************)

\* The snapshot held for a resource (Absent when there is none).
Snapshot(r) ==
    IF currentRateLimitState.isNull THEN Absent ELSE currentRateLimitState.res[r]

\* C2: after any sequence of recorded observations the snapshot held for a
\* resource is exactly the most recently recorded complete observation for
\* that resource (none when none was recorded), so isRateLimited depends on
\* that observation only.
C2_LastWriterWins ==
    \A r \in Resources :
        /\ Snapshot(r) = lastObs[r]
        /\ isRateLimited(currentRateLimitState, r, now) =
              ( /\ lastObs[r] # Absent
                /\ lastObs[r].remaining = 0
                /\ now < lastObs[r].reset * MsPerSecond )

\* C4: isRateLimited(resource) is true exactly when a snapshot exists for the
\* resource with remaining = 0 and the clock is strictly before its reset
\* instant; from the reset instant on it is false without a new observation,
\* and it is false when there is no snapshot.
C4_IsRateLimitedExact ==
    \A r \in Resources :
        isRateLimited(currentRateLimitState, r, now) <=>
            /\ Snapshot(r) # Absent
            /\ Snapshot(r).remaining = 0
            /\ now < Snapshot(r).reset * MsPerSecond

\* A snapshot with remaining = 0 whose reset instant has just been reached:
\* the resource is open again although nothing new was recorded.
C4_Witness ==
    \E r \in Resources :
        /\ Snapshot(r) # Absent
        /\ Snapshot(r).remaining = 0
        /\ now = Snapshot(r).reset * MsPerSecond
        /\ ~isRateLimited(currentRateLimitState, r, now)

\* C7: a request whose before-step found the core resource blocked is issued
\* only once the reset instant of the snapshot it saw has been reached; the
\* before-step throws only when it was blocked with no positive wait time;
\* a caller sleeps only when it was blocked, and a request that was not
\* blocked proceeds without sleeping.
C7_BlockedRequestWaits ==
    \A i \in Invocations :
        /\ (hook[i].pc = "request" /\ hook[i].sawBlocked)
              => now >= hook[i].sawReset * MsPerSecond
        /\ hook[i].pc = "error" => (hook[i].sawBlocked /\ hook[i].sawWait = 0)
        /\ hook[i].pc = "sleeping" => (hook[i].sawBlocked /\ hook[i].sawWait > 0)
        /\ (hook[i].pc = "request" /\ ~hook[i].sawBlocked) => ~hook[i].slept

\* A caller that was blocked, slept, and whose request then went out.
C7_Witness ==
    \E i \in Invocations :
        /\ hook[i].pc = "request"
        /\ hook[i].sawBlocked
        /\ hook[i].slept

\* C11: when any of the five quota header fields is absent from the headers
\* handed to updateFromHeaders, the step leaves the whole quota state as it
\* was: no snapshot is created and none is replaced.
C11_IncompleteHeadersIgnored ==
    [][ (nObs' = nObs + 1 /\ lastHeaders' \in IncompleteHeaders)
          => currentRateLimitState' = currentRateLimitState ]_vars

\* Headers lacking one field were observed while snapshots were held: the
\* snapshots are still the last complete observations.
C11_Witness ==
    /\ lastHeaders \in IncompleteHeaders \ {Absent}
    /\ ~currentRateLimitState.isNull
    /\ \E r \in Resources : Snapshot(r) # Absent /\ Snapshot(r) = lastObs[r]

\* C12: recording a complete observation for resource R leaves the snapshot
\* of every other resource name exactly as it was, absent when it was absent,
\* the very first observation included.
C12_OtherResourcesUntouched ==
    [][ \A r \in Resources :
          (nObs' = nObs + 1
              /\ lastHeaders' \in CompleteHeaders /\ lastHeaders'.resource # r)
            => (Snapshot(r))' = Snapshot(r) ]_vars

\* C29: when the before-step has slept because core was blocked and then lets
\* the request proceed, core is not blocked at that moment, whatever the
\* other invocations in flight recorded while the caller slept.
C29_OpenAtWake ==
    [][ \A i \in Invocations :
          (hook[i].pc = "sleeping" /\ hook'[i].pc = "request")
            => ~isRateLimited(currentRateLimitState', "core", now') ]_vars

\* ------------------------------ fetchers ------------------------------

Last(seq) == seq[Len(seq)]

NoFailure == \A k \in 1..Len(fetch.reqLog) : fetch.reqLog[k].status = 200

Exhaustive == fetch.op \in {"getAllStargazersWithTimestamps", "getAllReleases"}

\* ceil(N/P), plus one when N is an exact multiple of P.
RequestsExpected ==
    IF listN % PerPage = 0 THEN listN \div PerPage + 1
    ELSE (listN + PerPage - 1) \div PerPage

\* The N records of the listing as the caller is to receive them.
AllRecords ==
    IF fetch.op = "getAllReleases"
    THEN [k \in 1..listN |-> [form |-> "release", login |-> k, starred_at |-> Null]]
    ELSE [k \in 1..listN |-> [login |-> IF k \in ghosts THEN Null ELSE k,
                               starred_at |-> k]]

HasLogin(rec) == rec.login # Null

\* C1 as stated: an exhaustive fetch whose requests all succeed returns
\* exactly the N records of the listing and issues ceil(N/P) requests, one
\* more when N is an exact multiple of P.
C1_ReturnsAllRecords ==
    (Exhaustive /\ NoFailure /\ fetch.pc = "done") =>
        /\ fetch.result = ListResult(AllRecords)
        /\ Len(fetch.reqLog) = RequestsExpected

\* C1 (amended): an exhaustive fetch whose requests all succeed never issues
\* more than ceil(N/P) requests (one more when N is an exact multiple of P),
\* issues exactly that many by the time it returns, and returns, in listing
\* order, exactly the records of the listing that carry a user login: all N
\* releases, and all N stargazers when no stargazer record has a null user.
C1_PaginationTermination ==
    (Exhaustive /\ NoFailure) =>
        /\ Len(fetch.reqLog) <= RequestsExpected
        /\ fetch.pc = "done" =>
              /\ fetch.result = ListResult(SelectSeq(AllRecords, HasLogin))
              /\ Len(fetch.reqLog) = RequestsExpected
              /\ (ghosts = {} => Len(fetch.result.items) = listN)

\* A listing of exactly two full pages was fetched with three requests.
C1_Witness ==
    /\ fetch.op = "getAllStargazersWithTimestamps"
    /\ NoFailure
    /\ fetch.pc = "done"
    /\ listN = 2 * PerPage
    /\ Len(fetch.reqLog) = 3
    /\ Len(fetch.result.items) = listN

PlainRecord(k) == [login |-> k, starred_at |-> Null]

\* C8: once an enhanced stargazer request has failed, the call only issues
\* plain requests, numbered from page 1; everything collected from then on is
\* a duplicate-free prefix of the plain listing with starred_at = null (so
\* nothing collected before the failure is kept); the call fails only if a
\* plain request fails, and otherwise returns the whole plain listing.
C8_PermanentFallback ==
    fetch.op = "getAllStargazersWithTimestamps" =>
        LET log == fetch.reqLog
            failed == { k \in 1..Len(log) : log[k].form = "star" /\ log[k].status # 200 }
        IN  /\ \A j \in failed : \A k \in (j + 1)..Len(log) :
                  /\ log[k].form = "user"
                  /\ log[k].page = k - j
            /\ (failed # {}) <=> (fetch.mode = "plain")
            /\ fetch.mode = "plain" =>
                  /\ \A k \in 1..Len(fetch.acc) : fetch.acc[k] = PlainRecord(k)
                  /\ fetch.pc = "failed" =>
                        (Last(log).form = "user" /\ Last(log).status # 200)
                  /\ fetch.pc = "done" =>
                        fetch.result = ListResult([k \in 1..listN |-> PlainRecord(k)])
            /\ fetch.mode = "enhanced" => fetch.pc # "failed"

\* The enhanced request for page 2 failed after page 1 had been collected,
\* and the call returned the listing in plain form.
C8_Witness ==
    /\ fetch.op = "getAllStargazersWithTimestamps"
    /\ fetch.pc = "done"
    /\ Len(fetch.reqLog) >= 3
    /\ fetch.reqLog[1] = Request("star", 1, 200)
    /\ fetch.reqLog[2].form = "star" /\ fetch.reqLog[2].status # 200
    /\ Len(fetch.result.items) = listN
    /\ listN > PerPage

\* The first records of the listing that carry a user login, at most `limit`.
FirstWithLogin(limit) == slice(SelectSeq(AllRecords, HasLogin), limit)

Capped == fetch.op = "getStargazersWithTimestamps"

\* C13 as stated: the capped fetch requests a page only while fewer than L
\* records are accumulated and every earlier page was full, and it returns
\* the first min(N, L) records of the listing, never more than L.
C13_ReturnsFirstRecords ==
    Capped =>
        /\ fetch.pc = "request" =>
              /\ Len(fetch.acc) < fetch.limit
              /\ (fetch.page - 1) * cappedPerPage(fetch.limit) <= listN
        /\ (fetch.pc = "done" /\ NoFailure) =>
              fetch.result = ListResult(slice(AllRecords, fetch.limit))

\* C13 (amended): the capped fetch requests a page only while fewer than L
\* records are accumulated and every earlier page was full; it never returns
\* more than L records; when no request fails it returns, in listing order,
\* the first L records of the listing that carry a user login (all of them
\* when there are fewer), which are the first min(N, L) records when no
\* stargazer record has a null user; after a failed enhanced request it
\* returns the first min(N, L) records in plain form.
C13_CappedFetch ==
    Capped =>
        /\ fetch.pc = "request" =>
              /\ Len(fetch.acc) < fetch.limit
              /\ (fetch.page - 1) * cappedPerPage(fetch.limit) <= listN
        /\ fetch.pc = "done" =>
              /\ Len(fetch.result.items) <= fetch.limit
              /\ NoFailure => fetch.result = ListResult(FirstWithLogin(fetch.limit))
              /\ (NoFailure /\ ghosts = {}) =>
                    /\ Len(fetch.result.items) = Min(listN, fetch.limit)
                    /\ fetch.result.items = SubSeq(AllRecords, 1, Min(listN, fetch.limit))
              /\ fetch.mode = "plain" =>
                    fetch.result = ListResult(
                        [k \in 1..Min(listN, fetch.limit) |-> PlainRecord(k)])

\* A cap of 150 on a listing of more than 200 records: two full pages were
\* requested, 200 records accumulated, 150 returned.
C13_Witness ==
    /\ Capped /\ fetch.pc = "done" /\ NoFailure
    /\ fetch.limit = 150 /\ listN > 200
    /\ Len(fetch.reqLog) = 2
    /\ Len(fetch.acc) > fetch.limit
    /\ Len(fetch.result.items) = fetch.limit

\* C26: an exhaustive stargazer fetch pauses only when the pages fetched so
\* far (in the enhanced run, or in the fallback run after a failure) are a
\* positive multiple of 10: after pages 10, 20, 30, ... and at no other point.
C26_PauseAfterTenthPage ==
    (fetch.op = "getAllStargazersWithTimestamps" /\ fetch.pc = "pause") =>
        LET fetched == fetch.page - 1
        IN  fetched > 0 /\ fetched % PauseEvery = 0

\* C10: a 404 answer to a release listing request (getReleases,
\* getAllReleases) or to the traffic referrers request makes the call return
\* an empty sequence, and a 404 answer to the latest-release request makes it
\* return null; the call does not fail.
C10_NotFoundIsEmpty ==
    (fetch.reqLog # <<>> /\ Last(fetch.reqLog).status = 404) =>
        /\ fetch.op \in {"getReleases", "getAllReleases", "getTrafficReferrers"}
              => (fetch.pc = "done" /\ fetch.result = ListResult(<<>>))
        /\ fetch.op = "getLatestRelease"
              => (fetch.pc = "done" /\ fetch.result = NullResult)

\* getAllReleases collected a full page, then page 2 answered 404.
C10_Witness ==
    /\ fetch.op = "getAllReleases"
    /\ Len(fetch.reqLog) = 2
    /\ fetch.reqLog[2].status = 404
    /\ fetch.acc # <<>>
    /\ fetch.result = ListResult(<<>>)

\* --------------------------- batch enricher ---------------------------

\* The profiles of the identifiers 1..upTo whose lookup did not fail, in
\* the order of the input.
Succeeded(upTo) ==
    LET Ok(stargazer) == stargazer.login \notin enrich.failedLogins
        ok == SelectSeq(SubSeq(enrich.items, 1, upTo), Ok)
    IN  [k \in 1..Len(ok) |->
            [kind |-> "profile", login |-> ok[k].login, starred_at |-> ok[k].starred_at]]

\* C3: whatever lookups fail and in whatever order the concurrent lookups
\* settle, the enricher never fails, the results pushed so far are the
\* successful lookups of the finished batches in input order, and the call
\* returns exactly the successful lookups of the whole input in input order.
C3_BatchPartialFailure ==
    /\ enrich.pc # "failed"
    /\ enrich.pc \in {"loop", "await", "delay"} =>
          enrich.results = Succeeded(Min(Len(enrich.items),
                              (IF enrich.pc = "delay" THEN enrich.i + 1 ELSE enrich.i)
                                 * enrich.batchSize))
    /\ enrich.pc = "done" => enrich.results = Succeeded(Len(enrich.items))

\* Ten identifiers in one batch, the lookups of the third and the seventh
\* failed: eight profiles are returned.
C3_Witness ==
    /\ enrich.pc = "done"
    /\ Len(enrich.items) = 10
    /\ enrich.failedLogins = {3, 7}
    /\ Len(enrich.results) = 8

RECURSIVE Concat(_, _)
Concat(seqs, k) == IF k = 0 THEN <<>> ELSE Concat(seqs, k - 1) \o seqs[k]

\* The chunk (counted from 1) that holds the item with login k.
ChunkOf(k) == (k - 1) \div enrich.batchSize + 1

\* C14: the chunks are contiguous order-preserving slices of the input, all
\* of the batch size except possibly the last; a lookup of a chunk is started
\* only when every lookup of the earlier chunks has settled; the caller
\* sleeps exactly once between two consecutive chunks (each sleep lasting
\* delayBetweenBatches, no timer when that is 0) and never after the last.
C14_BatchOrdering ==
    enrich.pc # "idle" =>
        LET batches == chunk(enrich.items, enrich.batchSize)
            n == Len(batches)
            between == IF enrich.pc = "delay" THEN enrich.i + 1
                       ELSE Min(enrich.i, Max(0, n - 1))
        IN  /\ Concat(batches, n) = enrich.items
            /\ \A b \in 1..n :
                  /\ Len(batches[b]) >= 1
                  /\ Len(batches[b]) <= enrich.batchSize
                  /\ b < n => Len(batches[b]) = enrich.batchSize
            /\ \A a \in enrich.started : \A k \in 1..Len(enrich.items) :
                  ChunkOf(k) < ChunkOf(a) => k \in enrich.settled
            /\ enrich.pc = "delay" =>
                  (enrich.i + 1 < n /\ enrich.started = enrich.settled)
            /\ enrich.sleeps * enrich.delayMs = between * enrich.delayMs
            /\ enrich.pc = "done" =>
                  enrich.sleeps * enrich.delayMs = Max(0, n - 1) * enrich.delayMs

\* Ten identifiers in chunks of three: four chunks, the last of one item,
\* three sleeps, and the call has returned.
C14_Witness ==
    /\ enrich.pc = "done"
    /\ Len(enrich.items) = 10
    /\ enrich.batchSize = 3
    /\ enrich.delayMs > 0
    /\ Len(chunk(enrich.items, enrich.batchSize)) = 4
    /\ enrich.sleeps = 3
    /\ enrich.settled = 1..10

\* --------------------------- scope planner ----------------------------

\* C5: the plan returned after a successful quota lookup is the first
\* matching band of the decision table, its analysisLimit raised to at
\* least 10.
C5_DecisionTable ==
    (plan.pc = "done" /\ ~plan.lookupFailed) =>
        LET r == plan.remaining
            limit == plan.result.analysisLimit
            all == plan.result.shouldUseAllStargazers
        IN  /\ limit >= 10
            /\ ~plan.hasToken =>
                  (limit = Max(10, Min(25, r - 10)) /\ all = FALSE)
            /\ (plan.hasToken /\ r > 2000) =>
                  (limit = Max(10, Min(r - 100, 50000)) /\ all = TRUE)
            /\ (plan.hasToken /\ r > 500 /\ r <= 2000) =>
                  (limit = Max(10, Min(r - 100, 10000)) /\ all = TRUE)
            /\ (plan.hasToken /\ r > 100 /\ r <= 500) =>
                  (limit = Max(10, Min(100, r - 20)) /\ all = FALSE)
            /\ (plan.hasToken /\ r <= 100) =>
                  (limit = Max(10, Max(10, r - 5)) /\ all = FALSE)

\* With a credential and exactly 500 requests remaining the fourth band
\* applies: 100 profiles, no exhaustive fetch.
C5_Witness ==
    /\ plan.pc = "done"
    /\ ~plan.lookupFailed
    /\ plan.hasToken
    /\ plan.remaining = 500
    /\ plan.result = Plan(100, FALSE)

\* C15: when the quota lookup fails the planner still returns a plan and
\* raises nothing: 5000 profiles with the exhaustive fetch when a credential
\* is configured, 50 profiles without the exhaustive fetch when none is.
C15_SafeDefaults ==
    /\ plan.pc \in {"idle", "lookup", "done"}
    /\ (plan.pc = "done" /\ plan.lookupFailed) =>
          /\ plan.hasToken =>
                (plan.result.analysisLimit = 5000 /\ plan.result.shouldUseAllStargazers)
          /\ ~plan.hasToken =>
                (plan.result.analysisLimit = 50 /\ ~plan.result.shouldUseAllStargazers)

\* The lookup failed with a credential configured.
C15_Witness ==
    /\ plan.pc = "done"
    /\ plan.lookupFailed
    /\ plan.hasToken
    /\ plan.result = Plan(5000, TRUE)

\* ---------------------------- star history ----------------------------

RECURSIVE SumChange(_, _)
SumChange(points, i) == IF i = 0 THEN 0 ELSE points[i].change + SumChange(points, i - 1)

\* C6: in the history points the cumulative value of point i is at least the
\* value of point i-1 and equals the sum of the daily changes of the points
\* up to and including i.
C6_CumulativeStars ==
    star.pc = "done" =>
        LET points == star.history_points
        IN  \A i \in 1..Len(points) :
                /\ i > 1 => points[i].stars >= points[i - 1].stars
                /\ points[i].stars = SumChange(points, i)

\* Stars on at least two different days, one of them with several stars.
C6_Witness ==
    /\ star.pc = "done"
    /\ Len(star.history_points) >= 2
    /\ star.history_points[2].stars > star.history_points[2].change
    /\ \E i \in 1..Len(star.history_points) : star.history_points[i].change >= 2

\* The calendar days on which a timestamped star event of the input falls.
EventDays ==
    { star.stargazers[k].starred_at \div SlotsPerDay :
        k \in { j \in 1..Len(star.stargazers) : star.stargazers[j].starred_at # Null } }

EventsOn(day) ==
    Cardinality({ k \in 1..Len(star.stargazers) :
                    /\ star.stargazers[k].starred_at # Null
                    /\ star.stargazers[k].starred_at \div SlotsPerDay = day })

\* C19: the history points are strictly increasing by date and hold exactly
\* one point per calendar day with at least one timestamped star event, its
\* change the number of events of that day (at least 1); days without events
\* and events without a timestamp produce no point.
C19_OnePointPerDay ==
    star.pc = "done" =>
        LET points == star.history_points
        IN  /\ \A i \in 2..Len(points) : points[i - 1].date < points[i].date
            /\ { points[i].date : i \in 1..Len(points) } = EventDays
            /\ Len(points) = Cardinality(EventDays)
            /\ \A i \in 1..Len(points) :
                  /\ points[i].change = EventsOn(points[i].date)
                  /\ points[i].change >= 1

\* An event without timestamp, one event on the first day, none on the
\* second, two on the third: two points.
C19_Witness ==
    /\ star.pc = "done"
    /\ Len(star.stargazers) = 4
    /\ \E k \in 1..4 : star.stargazers[k].starred_at = Null
    /\ EventDays = {1, 3}
    /\ Len(star.history_points) = 2
    /\ star.history_points[1].change = 1
    /\ star.history_points[2].change = 2

Thresholds == {1000, 5000, 10000, 50000, 100000}

\* The history points whose cumulative value has reached the threshold.
PointsAt(threshold) ==
    { i \in 1..Len(star.history_points) : star.history_points[i].stars >= threshold }

\* C20: a milestone for a threshold is emitted exactly when the current star
\* total has reached the threshold and some history point has a cumulative
\* value that reached it; its date is the date of the earliest such point;
\* the milestones are in increasing threshold order.
C20_Milestones ==
    star.pc \in {"done", "returned"} =>
        LET milestones == star.milestones
            emitted == { milestones[i].stars : i \in 1..Len(milestones) }
        IN  /\ emitted \subseteq Thresholds
            /\ \A threshold \in Thresholds :
                  (threshold \in emitted) <=>
                      (star.current_stars >= threshold /\ PointsAt(threshold) # {})
            /\ \A i \in 1..Len(milestones) :
                  \E p \in PointsAt(milestones[i].stars) :
                      /\ milestones[i].date = star.history_points[p].date
                      /\ \A q \in PointsAt(milestones[i].stars) :
                            star.history_points[p].date <= star.history_points[q].date
            /\ \A i \in 2..Len(milestones) : milestones[i - 1].stars < milestones[i].stars

\* The history reached 1000 on its second day and 5000 on its third, and the
\* repository holds at least 5000 stars but fewer than 10000: two milestones.
C20_Witness ==
    /\ star.pc = "returned"
    /\ Len(star.history_points) = 3
    /\ star.history_points[1].stars < 1000
    /\ star.history_points[2].stars = 1000
    /\ star.history_points[3].stars = 5000
    /\ star.current_stars = 5000
    /\ Len(star.milestones) = 2
    /\ star.milestones[1].date = 2
    /\ star.milestones[2].date = 3

\* -------------------------- release analytics --------------------------

\* The download total of the k-th release of the list handed in.
TotalOf(k) ==
    LET assets == rel.releases[k].assets
    IN  sumUpTo([j \in 1..Len(assets) |-> assets[j].download_count], Len(assets))

RECURSIVE GrandTotal(_)
GrandTotal(k) == IF k = 0 THEN 0 ELSE GrandTotal(k - 1) + TotalOf(k)

\* The first release in input order whose download total is maximal.
FirstMaximal ==
    CHOOSE i \in 1..Len(rel.releases) :
        /\ \A k \in 1..Len(rel.releases) : TotalOf(k) <= TotalOf(i)
        /\ \A k \in 1..(i - 1) : TotalOf(k) < TotalOf(i)

\* C16: for a non-empty list most_downloaded_release is the first release in
\* input order whose download total is maximal, and its tag, name, publish
\* date and download total are those of that release.
C16_MostDownloadedRelease ==
    (rel.metrics.computed /\ Len(rel.releases) > 0) =>
        LET most == rel.metrics.value.most_downloaded_release
            release == rel.releases[FirstMaximal]
        IN  /\ most.downloads = TotalOf(FirstMaximal)
            /\ most.tag_name = release.tag_name
            /\ most.name = release.name
            /\ most.published_at = release.published_at

\* C17: total_downloads of calculateReleaseMetrics and of
\* calculateDownloadStats both equal the sum of the download counts of all
\* assets of all releases, and average_downloads_per_release is that total
\* divided by the number of releases, rounded to the nearest integer.
C17_DownloadTotals ==
    LET n == Len(rel.releases)
        total == GrandTotal(n)
    IN  /\ rel.stats.computed => rel.stats.value.total_downloads = total
        /\ rel.metrics.computed =>
              LET average == rel.metrics.value.average_downloads_per_release
              IN  /\ rel.metrics.value.total_downloads = total
                  /\ n = 0 => average = 0
                  /\ n > 0 =>
                        /\ 2 * (average * n - total) <= n
                        /\ 2 * (total - average * n) <= n

\* Three releases with download totals 100, 250 and 0: 350 in both
\* calculations, 117 on average.
C17_Witness ==
    /\ rel.metrics.computed /\ rel.stats.computed
    /\ Len(rel.releases) = 3
    /\ TotalOf(1) = 100 /\ TotalOf(2) = 250 /\ TotalOf(3) = 0
    /\ Len(rel.releases[2].assets) = 2
    /\ rel.metrics.value.total_downloads = 350
    /\ rel.stats.value.total_downloads = 350
    /\ rel.metrics.value.average_downloads_per_release = 117

\* The releases of the list that are published and not drafts.
PublishedNonDraft ==
    { k \in 1..Len(rel.releases) :
        rel.releases[k].published_at # Null /\ ~rel.releases[k].draft }

\* C18: with at most one published non-draft release in the list, whatever
\* the drafts and unpublished releases, days_between_releases,
\* releases_per_month and releases_per_year are all 0.
C18_FrequencyEdgeCase ==
    (rel.metrics.computed /\ Cardinality(PublishedNonDraft) <= 1) =>
        rel.metrics.value.release_frequency = Frequency(0, 0, 0)

\* One published release, one draft carrying a later publish instant and
\* one unpublished release: the frequency is all zero.
C18_Witness ==
    /\ rel.metrics.computed
    /\ Len(rel.releases) = 3
    /\ Cardinality(PublishedNonDraft) = 1
    /\ \E d \in 1..3 : \E p \in PublishedNonDraft :
          /\ rel.releases[d].draft
          /\ rel.releases[d].published_at > rel.releases[p].published_at + HalfDaysPerDay
    /\ \E u \in 1..3 : rel.releases[u].published_at = Null
    /\ rel.metrics.value.release_frequency = Frequency(0, 0, 0)

\* ------------------------- notable stargazers -------------------------

\* C21: the notable stargazers are, in this order, up to 10 profiles with at
\* least 10,000 followers, up to 5 profiles of an allow-listed employer and
\* up to 5 of the top-scored profiles not selected before; no login occurs
\* twice and there are at most 20 entries.
C21_NotableUnion ==
    (calc.fn = "identifyNotableStargazers" /\ calc.pc = "done") =>
        LET notable == calc.output
            ByReason(reason) ==
                { k \in 1..Len(notable) : notable[k].reason = reason }
        IN  /\ Len(notable) <= 20
            /\ Cardinality(ByReason("followers")) <= 10
            /\ Cardinality(ByReason("company")) <= 5
            /\ Cardinality(ByReason("score")) <= 5
            /\ \A a \in ByReason("followers") : \A b \in ByReason("company") : a < b
            /\ \A b \in ByReason("company") : \A c \in ByReason("score") : b < c
            /\ \A a \in ByReason("followers") : \A c \in ByReason("score") : a < c
            /\ \A j, k \in 1..Len(notable) :
                  notable[j].login = notable[k].login => j = k

\* ----------------------------- asset types -----------------------------

\* The name has an extension: a "." followed by at least one character.
HasExtension(name) == \E k \in 1..(Len(name) - 1) : name[k] = "."

\* The bucket of an asset: its lowercase extension, "unknown" without one.
BucketOf(name) ==
    IF ~HasExtension(name) THEN unknown
    ELSE LET last == CHOOSE k \in 1..(Len(name) - 1) :
                        /\ name[k] = "."
                        /\ \A j \in (k + 1)..Len(name) : name[j] # "."
         IN  [j \in 1..(Len(name) - last) |-> lowerChar(name[last + j])]

\* The downloads of the assets at the given positions, added up.
RECURSIVE DownloadsOf(_, _)
DownloadsOf(assets, positions) ==
    IF positions = {} THEN 0
    ELSE LET k == CHOOSE p \in positions : TRUE
         IN  assets[k].download_count + DownloadsOf(assets, positions \ {k})

\* C22: every asset is counted in the bucket keyed by the lowercase
\* extension of its name, in asset_types and in by_file_type, and an asset
\* whose name has no extension is counted in the bucket "unknown".
C22_AssetBuckets ==
    (calc.fn \in {"calculateAssetTypes", "calculateDownloadDistribution"}
        /\ calc.pc = "done") =>
        LET assets == calc.input
            buckets == { BucketOf(assets[k].name) : k \in 1..Len(assets) }
            In(bucket) == { k \in 1..Len(assets) : BucketOf(assets[k].name) = bucket }
        IN  /\ DOMAIN calc.output = buckets
            /\ \A bucket \in buckets :
                  IF calc.fn = "calculateAssetTypes"
                  THEN calc.output[bucket] = Cardinality(In(bucket))
                  ELSE calc.output[bucket] = DownloadsOf(assets, In(bucket))

\* ----------------------------- truncation ------------------------------

\* The serialized size of the payload handed in, and the budget in force.
InputChars ==
    LET data == calc.input.data
    IN  data.other + sumUpTo([k \in 1..Len(data.array) |-> data.array[k].chars],
                             Len(data.array))

Budget ==
    IF calc.input.maxChars = 0 THEN DEFAULT_MAX_RESPONSE_CHARS ELSE calc.input.maxChars

Truncating == calc.fn = "truncateResponse" /\ calc.pc \in {"done", "again"}

\* C23: a payload whose serialized size is within the budget is returned
\* unchanged with wasTruncated = false, and applying truncateResponse again
\* to a non-truncated result returns that same result.
C23_TruncationIdempotent ==
    Truncating =>
        /\ InputChars <= Budget =>
              calc.output[1] = [data |-> calc.input.data, wasTruncated |-> FALSE]
        /\ (calc.pc = "again" /\ ~calc.output[1].wasTruncated) =>
              calc.output[2] = calc.output[1]

\* A payload with an array whose size is exactly the budget went through
\* twice.
C23_Witness ==
    /\ Truncating /\ calc.pc = "again"
    /\ calc.input.data.hasArray /\ Len(calc.input.data.array) >= 2
    /\ InputChars = Budget
    /\ calc.output[2] = [data |-> calc.input.data, wasTruncated |-> FALSE]

\* The prefix lengths tried: floor(0.8 n), floor(0.8 previous), ...
RECURSIVE Tried(_)
Tried(size) ==
    LET next == (4 * size) \div 5
    IN  IF next = 0 THEN <<>> ELSE <<next>> \o Tried(next)

\* The serialized size of the candidate showing the first `size` elements.
CandidateChars(size) ==
    LET data == calc.input.data
    IN  data.other + sumUpTo([k \in 1..size |-> data.array[k].chars], size) + InfoChars

\* C27: for a payload over the budget whose field is an array of length n,
\* the result is, with wasTruncated = true, the first candidate of the
\* sequence floor(0.8 n), floor(0.8 previous), ... that fits the budget: a
\* prefix of the array with total_available = n and showing = its length;
\* when no positive length fits it is the error payload with
\* total_available = n.
C27_ProgressiveTruncation ==
    (Truncating /\ InputChars > Budget /\ calc.input.data.hasArray) =>
        LET n == Len(calc.input.data.array)
            tried == Tried(n)
            fitting == { k \in 1..Len(tried) : CandidateChars(tried[k]) <= Budget }
            result == calc.output[1]
        IN  /\ result.wasTruncated
            /\ result.data.truncation_info.total_available = n
            /\ fitting = {} => result.data.kind = "error"
            /\ fitting # {} =>
                  LET first == CHOOSE k \in fitting : \A other \in fitting : k <= other
                  IN  /\ result.data.kind = "data"
                      /\ result.data.truncation_info.showing = tried[first]
                      /\ result.data.array = SubSeq(calc.input.data.array, 1, tried[first])
                      /\ result.data.other = calc.input.data.other

\* Six elements over the budget: 4 and 3 elements were too large, 2 fit.
C27_Witness ==
    /\ Truncating
    /\ Len(calc.input.data.array) = 6
    /\ InputChars > Budget
    /\ CandidateChars(4) > Budget /\ CandidateChars(3) > Budget
    /\ calc.output[1].wasTruncated
    /\ calc.output[1].data.truncation_info.showing = 2

\* No prefix fits: the error payload names the six elements available.
C27_WitnessError ==
    /\ Truncating
    /\ Len(calc.input.data.array) = 6
    /\ calc.output[1].data.kind = "error"
    /\ calc.output[1].data.truncation_info.total_available = 6

\* ------------------------- influencer analytics ------------------------

\* C24: get_influencer_stargazers returns returnLimit top influencers
\* (limit, default 100, at most 200) whenever at least that many profiles
\* were analyzed, ordered by descending influence score.
C24_ReturnsRequestedCount ==
    inf.pc = "done" =>
        /\ Len(inf.influencers) >= inf.returnLimit =>
              Len(inf.top_influencers) = inf.returnLimit
        /\ \A k \in 1..(Len(inf.top_influencers) - 1) :
              inf.top_influencers[k].influence_score
                >= inf.top_influencers[k + 1].influence_score

\* The default limit with 100 profiles analyzed: 50 influencers came back.
FiftyOfHundred ==
    /\ inf.pc = "done" /\ inf.limit = 0 /\ inf.returnLimit = 100
    /\ Len(inf.influencers) = 100 /\ Len(inf.top_influencers) = 50

\* A limit of 30 is honoured.
ThirtyOfHundred ==
    /\ inf.pc = "done" /\ inf.limit = 30
    /\ Len(inf.influencers) = 100 /\ Len(inf.top_influencers) = 30

C30_WitnessLimited ==
    /\ inf.pc = "done" /\ ~inf.plan.shouldUseAllStargazers
    /\ inf.plan.analysisLimit = 100 /\ Len(inf.lookups) = 100

\* --------------------------- influence score ---------------------------

Scoring == calc.fn = "calculateInfluenceScore" /\ calc.pc \in {"done", "raised"}

RepoCap == 100
AgeCapTenths == 100

\* C25: the score is 0 for followers = 0, repos = 0, age = 0; raising any
\* of the three inputs never lowers it; raising the repo count beyond 100
\* or the age beyond 10 years, the other inputs fixed, leaves it unchanged.
C25_InfluenceScore ==
    Scoring =>
        /\ (calc.input.followers = 0 /\ calc.input.public_repos = 0
               /\ calc.input.ageTenths = 0) => calc.output[1] = 0
        /\ calc.pc = "raised" =>
              LET raised == calc.output[2]
              IN  /\ calc.output[3] >= calc.output[1]
                  /\ ( /\ raised.followers = calc.input.followers
                        /\ calc.input.public_repos >= RepoCap
                        /\ calc.input.ageTenths >= AgeCapTenths )
                        => calc.output[3] = calc.output[1]
                  /\ ( /\ raised.followers = calc.input.followers
                        /\ raised.ageTenths = calc.input.ageTenths
                        /\ calc.input.public_repos >= RepoCap )
                        => calc.output[3] = calc.output[1]
                  /\ ( /\ raised.followers = calc.input.followers
                        /\ raised.public_repos = calc.input.public_repos
                        /\ calc.input.ageTenths >= AgeCapTenths )
                        => calc.output[3] = calc.output[1]

\* 100 repositories raised to 250: the score stayed.
C25_Witness ==
    /\ Scoring /\ calc.pc = "raised"
    /\ calc.input.public_repos = 100 /\ calc.output[2].public_repos = 250
    /\ calc.output[2].followers = calc.input.followers
    /\ calc.output[2].ageTenths = calc.input.ageTenths
    /\ calc.input.followers = 99
    /\ calc.output[3] = calc.output[1]

\* Below the caps the score does rise with each input.
C25_WitnessRises ==
    /\ Scoring /\ calc.pc = "raised"
    /\ calc.input.public_repos = 50 /\ calc.output[2].public_repos = 99
    /\ calc.output[2].followers = calc.input.followers
    /\ calc.output[2].ageTenths = calc.input.ageTenths
    /\ calc.output[3] > calc.output[1]

\* ------------------------------- retry --------------------------------

RetryEnded == retry.pc \in {"returned", "failed", "threw"}

\* Every result before the last one was rejected by the predicate.
EarlierRejected ==
    \A k \in 1..(Len(retry.results) - 1) : retry.results[k].kind = "invalid"

RetrySafety ==
    /\ Len(retry.results) <= retry.maxRetries + 1
    /\ retry.pc = "returned" =>
          /\ EarlierRejected
          /\ retry.results[Len(retry.results)].kind = "valid"
          /\ retry.output = retry.results[Len(retry.results)].value
    /\ retry.pc = "failed" =>
          /\ Len(retry.results) = retry.maxRetries + 1
          /\ \A k \in 1..Len(retry.results) : retry.results[k].kind = "invalid"
          /\ retry.sleeps = Max(0, retry.maxRetries - 1)
          /\ retry.waited = retry.sleeps * retry.delayMs

C28_WitnessReturned ==
    /\ retry.pc = "returned" /\ retry.maxRetries = 3
    /\ Len(retry.results) = 3 /\ retry.sleeps = 2

\* ---------------------------- tool dispatch ---------------------------

Malformed ==
    \/ ~tool.args.present
    \/ "repository" \notin tool.args.keys
    \/ ~parseRepoIdentifier(tool.args.repository)

\* C9: for every tool that takes a repository identifier, a call with an
\* unparseable identifier or without the required argument sends no request
\* to the remote API and is answered with an error.
C9_MalformedInputNoRequest ==
    (tool.pc # "idle" /\ Malformed) =>
        /\ tool.sent = <<>>
        /\ tool.pc = "responded" => tool.isError

=============================================================================
